---- MODULE Spec2Model ----
(***************************************************************************)
(* A model of drgrep's hand-written regular-expression engine              *)
(* (src/src/regex/pattern.rs, struct SimplePattern) and of its glob engine *)
(* (src/src/glob.rs, struct GlobPattern).  A behaviour runs one of the two *)
(* engines: Spec the regular expressions, SpecGlob the globs.              *)
(*                                                                         *)
(* Strings are sequences of characters; a character is a one-token TLA+    *)
(* string.  The token "e_acute" stands for U+00E9, whose UTF-8 encoding is *)
(* two bytes long; every other character of the model is ASCII.  Rust's    *)
(* 0-based index i of a Vec<char> is index i + 1 of the sequence.          *)
(***************************************************************************)
EXTENDS Integers, Sequences, FiniteSets, TLC

VARIABLES pattern, compiled, text, replacement, op, pc,
          start_pos, results, elem_pos, current_pos, ret,
          glob, fail_at, reads, args

vars == <<pattern, compiled, text, replacement, op, pc,
          start_pos, results, elem_pos, current_pos, ret,
          glob, fail_at, reads, args>>

(***************************************************************************)
(* Bounds of the model.                                                    *)
(***************************************************************************)
MaxPatLen == 2

MaxTextLen == 2

MaxResults == 4

(***************************************************************************)
(* Characters.                                                             *)
(***************************************************************************)
AsciiDigits == {"1", "2", "3", "4", "5", "6"}

Alphabetic == {"a", "b", "c", "d", "e", "f", "x", "e_acute"}

WhitespaceChars == {" ", "\n"}

\* char::len_utf8: the number of bytes of the character in a &str.
len_utf8(c) == IF c = "e_acute" THEN 2 ELSE 1

RECURSIVE byte_len(_)
\* str::len: the byte length of a string.
byte_len(s) == IF s = <<>> THEN 0 ELSE len_utf8(Head(s)) + byte_len(Tail(s))

\* The byte offset at which the character with 0-based index k starts.
byte_offset(s, k) == byte_len(SubSeq(s, 1, k))

\* text.char_indices().nth(k): <<offset>> when the text has a k-th
\* character, <<>> (None) otherwise.
char_indices_nth(s, k) == IF k < Len(s) THEN <<byte_offset(s, k)>> ELSE <<>>

RECURSIVE chars_before(_, _)
\* The number of characters of s that start before byte offset b.
chars_before(s, b) ==
    IF s = <<>> \/ b <= 0 THEN 0
    ELSE 1 + chars_before(Tail(s), b - len_utf8(Head(s)))

\* str::is_char_boundary.
is_char_boundary(s, b) ==
    \E k \in 0..Len(s) : byte_offset(s, k) = b

\* &s[lo..hi] panics unless lo <= hi <= s.len() and both lie on character
\* boundaries.
slice_panics(s, lo, hi) ==
    ~(lo <= hi /\ is_char_boundary(s, lo) /\ is_char_boundary(s, hi))

\* The slice &s[lo..hi] of a string by byte offsets that lie on character
\* boundaries.
byte_slice(s, lo, hi) == SubSeq(s, chars_before(s, lo) + 1, chars_before(s, hi))

(***************************************************************************)
(* PatternElement and its constructors.                                    *)
(***************************************************************************)
Literal(c) == [kind |-> "Literal", c |-> c]

AnyChar == [kind |-> "AnyChar"]

Digit(negate) == [kind |-> "Digit", negate |-> negate]

Word(negate) == [kind |-> "Word", negate |-> negate]

Whitespace(negate) == [kind |-> "Whitespace", negate |-> negate]

StartAnchor == [kind |-> "StartAnchor"]

EndAnchor == [kind |-> "EndAnchor"]

Quantifier(elem, quantifier_type) ==
    [kind |-> "Quantifier", elem |-> elem, qt |-> quantifier_type]

\* An escape table in which a character that names no class matches any
\* character.
escape_element_unknown_any(c) ==
    CASE c = "d" -> Digit(FALSE)
      [] c = "D" -> Digit(TRUE)
      [] c = "w" -> Word(FALSE)
      [] c = "W" -> Word(TRUE)
      [] c = "s" -> Whitespace(FALSE)
      [] c = "S" -> Whitespace(TRUE)
      [] OTHER -> AnyChar

\* The element an escape sequence \c compiles to.
escape_element(c) ==
    CASE c = "d" -> Digit(FALSE)
      [] c = "D" -> Digit(TRUE)
      [] c = "w" -> Word(FALSE)
      [] c = "W" -> Word(TRUE)
      [] c = "s" -> Whitespace(FALSE)
      [] c = "S" -> Whitespace(TRUE)
      [] OTHER -> Literal(c)

quantifier_type_of(c) ==
    CASE c = "*" -> "ZeroOrMore"
      [] c = "+" -> "OneOrMore"
      [] OTHER -> "ZeroOrOne"

\* Err(PatternError::InvalidPattern(message)).
InvalidPattern(message) ==
    [ok |-> FALSE, elements |-> <<>>, is_end_anchor |-> FALSE,
     error |-> message]

RECURSIVE new_loop(_, _, _)
\* The `while let Some(c) = chars.next()` loop of SimplePattern::new; i is
\* the 1-based index of the next character of the pattern.
new_loop(p, i, elements) ==
    IF i > Len(p)
    THEN [ok |-> TRUE, elements |-> elements, is_end_anchor |-> FALSE]
    ELSE LET c == p[i] IN
         CASE c = "\\" ->
                IF i + 1 > Len(p)
                THEN InvalidPattern("Caractère d'échappement incomplet")
                ELSE new_loop(p, i + 2, Append(elements, escape_element(p[i + 1])))
           [] c = "." -> new_loop(p, i + 1, Append(elements, AnyChar))
           [] c = "$" ->
                IF i = Len(p)
                THEN [ok |-> TRUE, elements |-> elements, is_end_anchor |-> TRUE]
                ELSE new_loop(p, i + 1, Append(elements, Literal("$")))
           [] c \in {"*", "+", "?"} ->
                IF elements = <<>>
                THEN InvalidPattern("Quantificateur '" \o c
                                        \o "' sans élément précédent")
                ELSE new_loop(p, i + 1,
                         Append(SubSeq(elements, 1, Len(elements) - 1),
                                Quantifier(elements[Len(elements)],
                                           quantifier_type_of(c))))
           [] OTHER -> new_loop(p, i + 1, Append(elements, Literal(c)))

\* A compilation that reads a lone final backslash as a literal backslash.
SimplePattern_new_final_backslash_literal(p) ==
    LET is_start_anchor == Len(p) > 0 /\ p[1] = "^"
        first == IF is_start_anchor THEN 2 ELSE 1
        strict == new_loop(p, first, <<>>)
        r == IF ~strict.ok /\ strict.error = "Caractère d'échappement incomplet"
             THEN new_loop(p \o <<"\\">>, first, <<>>)
             ELSE strict
    IN  IF ~r.ok THEN [ok |-> FALSE, elements |-> <<>>, error |-> r.error]
        ELSE [ok |-> TRUE,
              elements |-> (IF is_start_anchor THEN <<StartAnchor>> ELSE <<>>)
                           \o r.elements
                           \o (IF r.is_end_anchor THEN <<EndAnchor>> ELSE <<>>)]

\* A compilation that reads a leading `^` as a literal character.
SimplePattern_new_caret_literal(p) ==
    LET r == new_loop(p, 1, <<>>)
    IN  IF ~r.ok THEN [ok |-> FALSE, elements |-> <<>>, error |-> r.error]
        ELSE [ok |-> TRUE,
              elements |-> r.elements
                           \o (IF r.is_end_anchor THEN <<EndAnchor>> ELSE <<>>)]

\* SimplePattern::new: [ok |-> TRUE, elements |-> the element sequence], or
\* [ok |-> FALSE, error |-> the message] for Err(InvalidPattern(message)).
SimplePattern_new(p) ==
    LET is_start_anchor == Len(p) > 0 /\ p[1] = "^"
        r == new_loop(p, IF is_start_anchor THEN 2 ELSE 1, <<>>)
    IN  IF ~r.ok THEN [ok |-> FALSE, elements |-> <<>>, error |-> r.error]
        ELSE [ok |-> TRUE,
              elements |-> (IF is_start_anchor THEN <<StartAnchor>> ELSE <<>>)
                           \o r.elements
                           \o (IF r.is_end_anchor THEN <<EndAnchor>> ELSE <<>>)]

(***************************************************************************)
(* Config::new (src/lib.rs).  The arguments are a map from names to        *)
(* optional values: <<v>> is Some(v), <<>> is None.                        *)
(***************************************************************************)
\* ArgParser::has.
has(a, key) == key \in DOMAIN a

\* ArgParser::get: the value of the key, None when the key is absent.
get(a, key) == IF key \in DOMAIN a THEN a[key] ELSE <<>>

Err(msg) == [tag |-> "Err", msg |-> msg]

Ok(v) == [tag |-> "Ok", val |-> v]

\* The value of the long name when it has one, of the short name otherwise.
get_either(a, long, short) ==
    IF get(a, long) # <<>> THEN get(a, long) ELSE get(a, short)

\* Config::new(args): Err(message), or Ok of the configuration (the search
\* key, the compiled regex and the content; the path and the case
\* sensitivity, read from the file system and the environment, never make
\* the call fail).
Config_new(a) ==
    IF ~\E key \in {"key", "k", "regex", "r", "content", "c"} : has(a, key)
    THEN Err("no search key/regex provided")
    ELSE LET value == get_either(a, "regex", "r")
         IN  IF value # <<>> /\ ~SimplePattern_new(value[1]).ok
             THEN Err("Error during the creating of the current regex")
             ELSE Ok([search_key |-> get_either(a, "key", "k"),
                      regex |-> IF value = <<>> THEN <<>>
                                ELSE <<SimplePattern_new(value[1])>>,
                      search_content |-> get_either(a, "content", "c")])

(***************************************************************************)
(* The matcher.                                                            *)
(***************************************************************************)
\* matches_element panics on a Quantifier.
matches_element_panics(element) == element.kind = "Quantifier"

\* SimplePattern::matches_element, for an element that is no Quantifier.
matches_element(element, c) ==
    CASE element.kind = "Literal" -> c = element.c
      [] element.kind = "AnyChar" -> TRUE
      [] element.kind = "Digit" -> (c \in AsciiDigits) # element.negate
      [] element.kind = "Word" ->
            (c \in Alphabetic \cup AsciiDigits \cup {"_"}) # element.negate
      [] element.kind = "Whitespace" -> (c \in WhitespaceChars) # element.negate
      [] OTHER -> FALSE

has_start_anchor(elements) ==
    elements # <<>> /\ elements[1].kind = "StartAnchor"

has_end_anchor(elements) ==
    elements # <<>> /\ elements[Len(elements)].kind = "EndAnchor"

\* The slice of the elements between the anchors.
actual_elements(elements) ==
    SubSeq(elements,
           IF has_start_anchor(elements) THEN 2 ELSE 1,
           IF has_end_anchor(elements) THEN Len(elements) - 1 ELSE Len(elements))

\* A start-anchor test that lets an attempt begin anywhere inside the text.
start_anchor_rejects_at_end_only(elements, text_chars, sp) ==
    has_start_anchor(elements) /\ sp > 0 /\ sp >= Len(text_chars)

\* The start-anchor test at the head of find_from: TRUE when the attempt
\* is given up at once.
start_anchor_rejects(elements, text_chars, sp) ==
    /\ has_start_anchor(elements)
    /\ sp > 0
    /\ (sp >= Len(text_chars) \/ text_chars[sp] # "\n")

Continue(pos) == [tag |-> "Continue", pos |-> pos]

NoMatch == [tag |-> "None"]

Panic == [tag |-> "Panic"]

RECURSIVE greedy_run(_, _, _)
\* `while current_pos < text_chars.len() && matches_element(elem, ..)`:
\* the position after the run, or -1 when matches_element panics.
greedy_run(elem, text_chars, cp) ==
    IF cp < Len(text_chars)
    THEN IF matches_element_panics(elem) THEN -1
         ELSE IF matches_element(elem, text_chars[cp + 1])
              THEN greedy_run(elem, text_chars, cp + 1)
              ELSE cp
    ELSE cp

\* One iteration of the element loop of find_from, for one element at the
\* position cp.
match_step(element, text_chars, cp) ==
    IF element.kind = "Quantifier"
    THEN CASE element.qt = "ZeroOrMore" ->
                LET e == greedy_run(element.elem, text_chars, cp)
                IN  IF e = -1 THEN Panic ELSE Continue(e)
           [] element.qt = "OneOrMore" ->
                LET e == greedy_run(element.elem, text_chars, cp)
                IN  IF e = -1 THEN Panic
                    ELSE IF e = cp THEN NoMatch ELSE Continue(e)
           [] OTHER ->
                IF cp < Len(text_chars)
                THEN IF matches_element_panics(element.elem) THEN Panic
                     ELSE IF matches_element(element.elem, text_chars[cp + 1])
                          THEN Continue(cp + 1)
                          ELSE Continue(cp)
                ELSE Continue(cp)
    ELSE IF cp >= Len(text_chars) \/ ~matches_element(element, text_chars[cp + 1])
         THEN NoMatch
         ELSE Continue(cp + 1)

\* The condition of the element loop of find_from.
loop_continues(actual, text_chars, ep, cp) ==
    ep < Len(actual) /\ cp <= Len(text_chars)

RECURSIVE match_elements(_, _, _, _)
\* The element loop of find_from, from element index ep (0-based) and
\* position cp.
match_elements(actual, text_chars, ep, cp) ==
    IF loop_continues(actual, text_chars, ep, cp)
    THEN LET r == match_step(actual[ep + 1], text_chars, cp)
         IN  IF r.tag = "Continue"
             THEN match_elements(actual, text_chars, ep + 1, r.pos)
             ELSE r
    ELSE Continue(cp)

\* The end-anchor test after the element loop: text_chars[cp - 1] is out
\* of bounds, and panics, when cp > text_chars.len().
end_anchor_check(elements, text_chars, cp) ==
    IF has_end_anchor(elements) /\ cp # Len(text_chars) /\ cp > 0
    THEN IF cp - 1 >= Len(text_chars) THEN Panic
         ELSE IF text_chars[cp] # "\n" THEN NoMatch ELSE Continue(cp)
    ELSE Continue(cp)

\* The Match built at the end of find_from.
make_match(t, match_start, cp) ==
    LET nth == char_indices_nth(t, match_start)
        actual_start == IF nth = <<>> THEN 0 ELSE nth[1]
        actual_end == IF cp >= Len(t) THEN byte_len(t)
                      ELSE LET e == char_indices_nth(t, cp)
                           IN  IF e = <<>> THEN byte_len(t) ELSE e[1]
    IN  [text |-> byte_slice(t, actual_start, actual_end),
         start |-> actual_start,
         end |-> actual_end]

Some(m) == [tag |-> "Some", m |-> m]

\* The tail of find_from, after the element loop ended at position cp.
find_from_end(elements, t, sp, cp) ==
    LET a == end_anchor_check(elements, t, cp)
        m == make_match(t, sp, cp)
    IN  IF a.tag # "Continue" THEN a
        ELSE IF slice_panics(t, m.start, m.end) THEN Panic
        ELSE Some(m)

\* SimplePattern::find_from: Some(m), None or a panic.
find_from(elements, t, sp) ==
    IF start_anchor_rejects(elements, t, sp) THEN NoMatch
    ELSE LET r == match_elements(actual_elements(elements), t, 0, sp)
         IN  IF r.tag = "Continue" THEN find_from_end(elements, t, sp, r.pos)
             ELSE r

RECURSIVE find_scan(_, _, _)
\* `for start in 0..text.len()` of SimplePattern::find.
find_scan(elements, t, start) ==
    IF start < byte_len(t)
    THEN LET r == find_from(elements, t, start)
         IN  IF r.tag = "None" THEN find_scan(elements, t, start + 1) ELSE r
    ELSE NoMatch

\* SimplePattern::find.
find(elements, t) ==
    IF has_start_anchor(elements) THEN find_from(elements, t, 0)
    ELSE find_scan(elements, t, 0)

\* The cursor of find_all after the match m.
next_start_pos(m) == IF m.end > m.start THEN m.end ELSE m.start + 1

Return(v) == [tag |-> "Return", val |-> v]

Diverges == [tag |-> "Diverges"]

RECURSIVE find_all_loop(_, _, _, _)
\* The `while start_pos <= text.len()` loop of find_all, run to its end.  An
\* iteration reads start_pos alone, so an iteration that leaves start_pos
\* as it was repeats for ever (pushing one more Match each time): Diverges.
find_all_loop(elements, t, sp, res) ==
    IF sp <= byte_len(t)
    THEN LET r == find_from(elements, t, sp)
         IN  CASE r.tag = "Panic" -> Panic
               [] r.tag = "None" -> find_all_loop(elements, t, sp + 1, res)
               [] OTHER ->
                    IF next_start_pos(r.m) <= sp THEN Diverges
                    ELSE find_all_loop(elements, t, next_start_pos(r.m),
                                       Append(res, r.m))
    ELSE Return(res)

\* SimplePattern::find_all: Return(the matches), a panic, or no return.
find_all(elements, t) == find_all_loop(elements, t, 0, <<>>)

RECURSIVE replace_loop(_, _, _, _, _, _)
\* The `for m in matches` loop of replace_all: the result built and the
\* last_end reached, or the panic of a slice.
replace_loop(t, matches, i, rep, last_end, result) ==
    IF i <= Len(matches)
    THEN IF slice_panics(t, last_end, matches[i].start) THEN Panic
         ELSE replace_loop(t, matches, i + 1, rep, matches[i].end,
                           result \o byte_slice(t, last_end, matches[i].start)
                                  \o rep)
    ELSE Return([result |-> result, last_end |-> last_end])

\* replace_all without its last push_str: the text after the last match is
\* lost.
replace_all_without_rest(elements, t, rep) ==
    LET fa == find_all(elements, t)
        r == replace_loop(t, fa.val, 1, rep, 0, <<>>)
    IN  IF fa.tag # "Return" THEN fa
        ELSE IF fa.val = <<>> THEN Return(t)
        ELSE IF r.tag = "Panic" THEN Panic
        ELSE Return(r.val.result)

\* SimplePattern::replace_all.
replace_all(elements, t, rep) ==
    LET fa == find_all(elements, t)
        r == replace_loop(t, fa.val, 1, rep, 0, <<>>)
    IN  IF fa.tag # "Return" THEN fa
        ELSE IF fa.val = <<>> THEN Return(t)
        ELSE IF r.tag = "Panic" THEN Panic
        ELSE IF slice_panics(t, r.val.last_end, byte_len(t)) THEN Panic
        ELSE Return(r.val.result \o byte_slice(t, r.val.last_end, byte_len(t)))

RECURSIVE split_loop(_, _, _, _, _)
\* The `for m in matches` loop of split and the push of the rest.
split_loop(t, matches, i, last_end, result) ==
    IF i <= Len(matches)
    THEN IF matches[i].start > last_end
         THEN IF slice_panics(t, last_end, matches[i].start) THEN Panic
              ELSE split_loop(t, matches, i + 1, matches[i].end,
                       Append(result, byte_slice(t, last_end, matches[i].start)))
         ELSE IF last_end = 0
              THEN split_loop(t, matches, i + 1, matches[i].end,
                              Append(result, <<>>))
              ELSE split_loop(t, matches, i + 1, matches[i].end, result)
    ELSE IF last_end < byte_len(t)
         THEN IF slice_panics(t, last_end, byte_len(t)) THEN Panic
              ELSE Return(Append(result, byte_slice(t, last_end, byte_len(t))))
         ELSE Return(Append(result, <<>>))

\* SimplePattern::split.
split(elements, t) ==
    LET fa == find_all(elements, t)
    IN  IF fa.tag # "Return" THEN fa
        ELSE IF fa.val = <<>> THEN Return(<<t>>)
        ELSE split_loop(t, fa.val, 1, 0, <<>>)

(***************************************************************************)
(* The glob engine (src/src/glob.rs): Component and its constructors.      *)
(***************************************************************************)
Component_Literal(lit) == [kind |-> "Literal", lit |-> lit]

SingleWildcard == [kind |-> "SingleWildcard"]

MultiWildcard == [kind |-> "MultiWildcard"]

CharacterClass(chars, negated) ==
    [kind |-> "CharacterClass", chars |-> chars, negated |-> negated]

\* The code points of the characters of the model ("xFF" stands for a byte
\* that is not UTF-8 and occurs in file names only).
code_point ==
    ("\n" :> 10) @@ (" " :> 32) @@ ("!" :> 33) @@ ("$" :> 36) @@ ("*" :> 42) @@
    ("+" :> 43) @@ ("," :> 44) @@ ("-" :> 45) @@ ("." :> 46) @@ ("/" :> 47) @@
    ("1" :> 49) @@ ("2" :> 50) @@ ("3" :> 51) @@ ("4" :> 52) @@ ("5" :> 53) @@
    ("6" :> 54) @@ ("?" :> 63) @@ ("D" :> 68) @@ ("[" :> 91) @@ ("\\" :> 92) @@
    ("]" :> 93) @@ ("^" :> 94) @@ ("a" :> 97) @@ ("b" :> 98) @@ ("c" :> 99) @@
    ("d" :> 100) @@ ("e" :> 101) @@ ("f" :> 102) @@ ("g" :> 103) @@
    ("h" :> 104) @@ ("i" :> 105) @@ ("l" :> 108) @@ ("m" :> 109) @@
    ("n" :> 110) @@
    ("o" :> 111) @@ ("r" :> 114) @@ ("s" :> 115) @@ ("t" :> 116) @@
    ("u" :> 117) @@ ("w" :> 119) @@ ("x" :> 120) @@ ("y" :> 121) @@
    ("z" :> 122) @@ ("{" :> 123) @@ ("}" :> 125) @@ ("e_acute" :> 233)

\* A range read from its lower end to its upper end, whichever is written
\* first.
char_range_either_order(start_char, end_char) ==
    {c \in DOMAIN code_point :
        \/ /\ code_point[start_char] <= code_point[c]
           /\ code_point[c] <= code_point[end_char]
        \/ /\ code_point[end_char] <= code_point[c]
           /\ code_point[c] <= code_point[start_char]}

\* start_char..end_char: a range without its upper end.
char_range_exclusive(start_char, end_char) ==
    {c \in DOMAIN code_point :
        /\ code_point[start_char] <= code_point[c]
        /\ code_point[c] < code_point[end_char]}

\* start_char..=end_char: the characters from start_char to end_char, both
\* included; none when start_char is the greater.
char_range(start_char, end_char) ==
    {c \in DOMAIN code_point :
        /\ code_point[start_char] <= code_point[c]
        /\ code_point[c] <= code_point[end_char]}

RECURSIVE class_loop(_, _, _)
\* The loop of parse_character_class over the content of the class, from
\* index i with the set collected so far: the set and the index of the
\* closing bracket (or of the end of the pattern).
class_loop(chars, i, char_set) ==
    IF i < Len(chars) /\ chars[i + 1] # "]"
    THEN IF i + 2 < Len(chars) /\ chars[i + 2] = "-"
         THEN class_loop(chars, i + 3,
                         char_set \cup char_range(chars[i + 1], chars[i + 3]))
         ELSE class_loop(chars, i + 1, char_set \cup {chars[i + 1]})
    ELSE [char_set |-> char_set, i |-> i]

\* A parser that gives an unclosed `[` an empty class and reads what
\* follows it as further components.
parse_character_class_unclosed_empty(chars, start) ==
    LET negated == start < Len(chars) /\ chars[start + 1] = "!"
        body == class_loop(chars, IF negated THEN start + 1 ELSE start, {})
    IN  IF body.i < Len(chars)
        THEN [class |-> CharacterClass(body.char_set, negated),
              new_pos |-> body.i + 1]
        ELSE [class |-> CharacterClass({}, FALSE), new_pos |-> start]

\* parse_character_class(chars, start): the class that opens before index
\* start and the index after it.
parse_character_class(chars, start) ==
    LET negated == start < Len(chars) /\ chars[start + 1] = "!"
        body == class_loop(chars, IF negated THEN start + 1 ELSE start, {})
    IN  [class |-> CharacterClass(body.char_set, negated),
         new_pos |-> IF body.i < Len(chars) THEN body.i + 1 ELSE body.i]

\* components.push(Literal(current_literal)) unless the literal is empty.
flush_literal(components, current_literal) ==
    IF current_literal # <<>>
    THEN Append(components, Component_Literal(current_literal))
    ELSE components

RECURSIVE parse_loop(_, _, _, _)
\* The loop of parse over a pattern without alternatives.
parse_loop(chars, i, components, current_literal) ==
    IF i >= Len(chars) THEN flush_literal(components, current_literal)
    ELSE LET c == chars[i + 1]
             flushed == flush_literal(components, current_literal)
         IN  CASE c = "*" ->
                    parse_loop(chars, i + 1, Append(flushed, MultiWildcard), <<>>)
               [] c = "?" ->
                    parse_loop(chars, i + 1, Append(flushed, SingleWildcard), <<>>)
               [] c = "[" ->
                    LET cc == parse_character_class(chars, i + 1)
                    IN  parse_loop(chars, cc.new_pos, Append(flushed, cc.class), <<>>)
               [] c = "\\" ->
                    IF i + 1 < Len(chars)
                    THEN parse_loop(chars, i + 2, components,
                                    Append(current_literal, chars[i + 2]))
                    ELSE parse_loop(chars, i + 1, components,
                                    Append(current_literal, "\\"))
               [] OTHER ->
                    parse_loop(chars, i + 1, components, Append(current_literal, c))

\* str::contains(char).
contains(s, c) == \E k \in 1..Len(s) : s[k] = c

RECURSIVE split_loop_braces(_, _, _, _, _)
\* The loop of split_respecting_braces over the characters of s.
split_loop_braces(s, k, result, current, brace_count) ==
    IF k > Len(s) THEN [result |-> result, current |-> current]
    ELSE LET c == s[k]
         IN  CASE c = "{" ->
                    split_loop_braces(s, k + 1, result, Append(current, c),
                                      brace_count + 1)
               [] c = "}" ->
                    split_loop_braces(s, k + 1, result, Append(current, c),
                                      brace_count - 1)
               [] c = "," /\ brace_count = 0 ->
                    split_loop_braces(s, k + 1, Append(result, current), <<>>,
                                      brace_count)
               [] OTHER ->
                    split_loop_braces(s, k + 1, result, Append(current, c),
                                      brace_count)

\* split_respecting_braces(s): s split at its commas of depth 0; what
\* follows the last comma is an option only when it is not empty.
split_respecting_braces(s) ==
    LET r == split_loop_braces(s, 1, <<>>, <<>>, 0)
    IN  IF r.current # <<>> THEN Append(r.result, r.current) ELSE r.result

RECURSIVE closing_brace(_, _, _)
\* The search of expand_alternatives for the brace that closes the one
\* before index j: its index, or -1 when brace_count never returns to 0.
closing_brace(chars, j, brace_count) ==
    IF j >= Len(chars) THEN -1
    ELSE CASE chars[j + 1] = "{" -> closing_brace(chars, j + 1, brace_count + 1)
           [] chars[j + 1] = "}" ->
                IF brace_count = 1 THEN j
                ELSE closing_brace(chars, j + 1, brace_count - 1)
           [] OTHER -> closing_brace(chars, j + 1, brace_count)

RECURSIVE expand_alternatives(_)
RECURSIVE expand_options(_, _, _, _, _)
RECURSIVE expand_scan(_, _, _)

\* The loop of expand_alternatives over the options of the first group
\* (result is empty when the group is reached, since the function returns
\* right after a group): each prefix + option + suffix is expanded and
\* the alternatives are appended in order.
expand_options(prefix, options, suffix, k, result) ==
    IF k > Len(options) THEN Return(result)
    ELSE LET expanded_option == expand_alternatives(prefix \o options[k] \o suffix)
         IN  IF expanded_option.tag # "Return" THEN expanded_option
             ELSE expand_options(prefix, options, suffix, k + 1,
                                 result \o expanded_option.val)

\* The loop of expand_alternatives over the characters of the pattern, at
\* index i with the unescaped text `current` read so far.  The indices of
\* the two braces are indices of characters, and the code slices the
\* pattern's bytes with them.
expand_scan(pattern_str, i, current) ==
    IF i >= Len(pattern_str) THEN Return(<<current>>)
    ELSE LET c == pattern_str[i + 1]
             end_pos == closing_brace(pattern_str, i + 1, 1)
         IN  CASE c = "{" ->
                    IF end_pos = -1
                    THEN expand_scan(pattern_str, i + 1, Append(current, "{"))
                    ELSE IF \/ slice_panics(pattern_str, i + 1, end_pos)
                            \/ slice_panics(pattern_str, end_pos + 1,
                                            byte_len(pattern_str))
                         THEN Panic
                         ELSE expand_options(
                                  current,
                                  split_respecting_braces(
                                      byte_slice(pattern_str, i + 1, end_pos)),
                                  byte_slice(pattern_str, end_pos + 1,
                                             byte_len(pattern_str)),
                                  1, <<>>)
               [] c = "\\" ->
                    IF i + 1 < Len(pattern_str)
                    THEN expand_scan(pattern_str, i + 2,
                                     Append(current, pattern_str[i + 2]))
                    ELSE expand_scan(pattern_str, i + 1, Append(current, "\\"))
               [] OTHER ->
                    expand_scan(pattern_str, i + 1, Append(current, c))

\* expand_alternatives(pattern): Return(the alternatives) or Panic.
expand_alternatives(pattern_str) == expand_scan(pattern_str, 0, <<>>)

\* parse(pattern): the components and the expanded alternatives.
parse(pattern_str) ==
    IF contains(pattern_str, "{") /\ contains(pattern_str, "}")
    THEN LET expanded == expand_alternatives(pattern_str)
         IN  IF expanded.tag # "Return" THEN expanded
             ELSE Return([components |-> <<>>, expanded_patterns |-> expanded.val])
    ELSE Return([components |-> parse_loop(pattern_str, 0, <<>>, <<>>),
                 expanded_patterns |-> <<>>])

\* GlobPattern::new(pattern): Return(the compiled glob) or Panic.
GlobPattern_new(pattern_str) ==
    LET parsed == parse(pattern_str)
    IN  IF parsed.tag # "Return" THEN parsed
        ELSE Return([pattern |-> pattern_str,
                     components |-> parsed.val.components,
                     expanded_patterns |-> parsed.val.expanded_patterns])

\* The value that a `let` binds, given as the set that holds it.  With `?`
\* the bound walk is returned at once when it did not end well:
\*     only({IF v.tag # "Ok" THEN v ELSE rest : v \in {walk}}).
only(S) == CHOOSE r \in S : TRUE

\* The outcome of a call of matches_from_position: whether it returned, the
\* value returned, and the recursive calls made below it, each as
\* <<component_idx, text_pos, component_idx of the call, text_pos of the call>>.
Returned(val, calls) == [tag |-> "Return", val |-> val, calls |-> calls]

NeverReturns(calls) == [tag |-> "Diverges", val |-> FALSE, calls |-> calls]

\* A retry of the MultiWildcard that consumes nothing.
consume_one_more_stuck(component_idx, text_pos) == <<component_idx, text_pos>>

\* Option 2 of a MultiWildcard: the same component, one character further.
consume_one_more(component_idx, text_pos) == <<component_idx, text_pos + 1>>

\* The call that moves past a component that consumed `consumed` characters.
next_component(component_idx, text_pos, consumed) ==
    <<component_idx + 1, text_pos + consumed>>

RECURSIVE position_outcome(_, _, _, _, _)
RECURSIVE call_from(_, _, _, _, _, _)

\* The recursive call `to` made by the call at (component_idx, text_pos).
\* `active` holds the calls still running: a call with the arguments of one
\* of them starts the same computation again, and the recursion never ends.
call_from(text_chars, components, component_idx, text_pos, to, active) ==
    LET edge == {<<component_idx, text_pos, to[1], to[2]>>}
    IN  IF to \in active \cup {<<component_idx, text_pos>>}
        THEN NeverReturns(edge)
        ELSE only({[below EXCEPT !.calls = @ \cup edge] :
                      below \in {position_outcome(
                                     text_chars, components, to[1], to[2],
                                     active \cup {<<component_idx, text_pos>>})}})

\* matches_from_position(text_chars, components, component_idx, text_pos)
\* below the calls of `active`.
position_outcome(text_chars, components, component_idx, text_pos, active) ==
    IF component_idx >= Len(components)
    THEN Returned(text_pos >= Len(text_chars), {})
    ELSE IF text_pos >= Len(text_chars)
    THEN IF components[component_idx + 1].kind = "MultiWildcard"
         THEN call_from(text_chars, components, component_idx, text_pos,
                        next_component(component_idx, text_pos, 0), active)
         ELSE Returned(\A i \in component_idx..(Len(components) - 1) :
                           components[i + 1].kind = "MultiWildcard", {})
    ELSE LET component == components[component_idx + 1]
         IN  CASE component.kind = "Literal" ->
                    IF /\ text_pos + Len(component.lit) <= Len(text_chars)
                       /\ \A i \in 0..(Len(component.lit) - 1) :
                              text_chars[text_pos + i + 1] = component.lit[i + 1]
                    THEN call_from(text_chars, components, component_idx, text_pos,
                                   next_component(component_idx, text_pos,
                                                  Len(component.lit)),
                                   active)
                    ELSE Returned(FALSE, {})
               [] component.kind = "SingleWildcard" ->
                    call_from(text_chars, components, component_idx, text_pos,
                              next_component(component_idx, text_pos, 1), active)
               [] component.kind = "MultiWildcard" ->
                    only({IF nothing.tag # "Return" \/ nothing.val THEN nothing
                          ELSE only({[more EXCEPT !.calls = @ \cup nothing.calls] :
                                        more \in {call_from(
                                            text_chars, components,
                                            component_idx, text_pos,
                                            consume_one_more(component_idx, text_pos),
                                            active)}}) :
                             nothing \in {call_from(
                                 text_chars, components, component_idx, text_pos,
                                 next_component(component_idx, text_pos, 0),
                                 active)}})
               [] OTHER ->
                    IF (text_chars[text_pos + 1] \in component.chars)
                           # component.negated
                    THEN call_from(text_chars, components, component_idx, text_pos,
                                   next_component(component_idx, text_pos, 1),
                                   active)
                    ELSE Returned(FALSE, {})

\* matches_from_position(text_chars, components, component_idx, text_pos):
\* the outcome of the call and the calls made.
matches_from_position(text_chars, components, component_idx, text_pos) ==
    position_outcome(text_chars, components, component_idx, text_pos, {})

\* What the caller gets of an outcome: Return(the value) or Diverges.
returned_value(outcome) ==
    IF outcome.tag = "Return" THEN Return(outcome.val) ELSE Diverges

\* A matcher that begins at the second character of the text.
matches_components_from_one(t, components, text_pos) ==
    returned_value(matches_from_position(t, components, 0, text_pos + 1))

\* matches_components(text, components, text_pos).
matches_components(t, components, text_pos) ==
    returned_value(matches_from_position(t, components, 0, text_pos))

RECURSIVE matches_seen(_, _, _)
RECURSIVE any_alternative(_, _, _, _)

\* expanded_patterns.iter().any(|pat| GlobPattern::new(pat).matches(text))
\* from the k-th alternative on.  `seen` holds the patterns whose matches
\* call is still running: an alternative among them starts the same call
\* again, and the recursion never ends.
any_alternative(alternatives, k, t, seen) ==
    IF k > Len(alternatives) THEN Return(FALSE)
    ELSE IF alternatives[k] \in seen THEN Diverges
    ELSE LET pat == GlobPattern_new(alternatives[k])
             r == matches_seen(pat.val, t, seen)
         IN  IF pat.tag # "Return" THEN pat
             ELSE IF r.tag # "Return" \/ r.val THEN r
             ELSE any_alternative(alternatives, k + 1, t, seen)

\* matches(text) of the compiled glob g, below the calls of `seen`.
matches_seen(g, t, seen) ==
    IF g.expanded_patterns # <<>>
    THEN any_alternative(g.expanded_patterns, 1, t, seen \cup {g.pattern})
    ELSE matches_components(t, g.components, 0)

\* GlobPattern::matches(text): Return(TRUE), Return(FALSE), Panic or
\* Diverges.
matches(g, t) == matches_seen(g, t, {})

(***************************************************************************)
(* The file system that find_files walks: a directory maps to its entries  *)
(* in the order in which read_dir yields them.  A path is a string; the    *)
(* name "xFF" is not UTF-8, so a path that holds it has no path string.    *)
(***************************************************************************)
BaseDir == <<"d">>

FileTree ==
    (<<"d">> :> << <<"a">>, <<"c">> >>) @@
    (<<"d", "/", "a">> :> << <<"a">>, <<"b">>, <<"xFF">>, <<"c">> >>) @@
    (<<"d", "/", "a", "/", "b">> :> << <<"c">> >>)

\* Path::is_dir.
is_dir(path) == path \in DOMAIN FileTree

\* The path of an entry of a directory: dir.join(name).
entry_path(dir, name) == dir \o <<"/">> \o name

\* Path::to_str: <<the string>>, or <<>> (None) when the path is not UTF-8.
to_str(path) == IF contains(path, "xFF") THEN <<>> ELSE <<path>>

\* The state of a walk: how it ended so far, the result list and the reads
\* of the directory tree made, in order.
Walking(result, reads_made) ==
    [tag |-> "Ok", result |-> result, reads |-> reads_made]

\* The two kinds of read: fs::read_dir(dir), and the fetch of the k-th
\* entry of dir from the iterator.
read_dir(dir) == <<"read_dir", dir>>
next_entry(dir, k) == <<"entry", dir, k>>

\* A failed read that is made a second time, and then succeeds.
read_retried(w, what, fail) ==
    IF Len(w.reads) + 1 = fail
    THEN [w EXCEPT !.reads = Append(Append(@, what), what)]
    ELSE [w EXCEPT !.reads = Append(@, what)]

\* A read of the directory tree: the read whose number is fail fails.
read(w, what, fail) ==
    [w EXCEPT !.reads = Append(@, what),
              !.tag = IF Len(w.reads) + 1 = fail THEN "Err" ELSE "Ok"]

RECURSIVE find_files_recursive(_, _, _, _)
RECURSIVE entries_loop(_, _, _, _, _)

\* A loop body that searches a directory only when its own path matched.
visit_entry_if_matched(g, dir, k, w, fail) ==
    LET path == entry_path(dir, FileTree[dir][k])
        path_str == to_str(path)
    IN  IF path_str # <<>> /\ matches(g, path_str[1]) = Return(TRUE)
        THEN only({IF is_dir(path)
                   THEN find_files_recursive(g, path, pushed, fail)
                   ELSE pushed :
                       pushed \in {[w EXCEPT !.result = Append(@, path)]}})
        ELSE w

\* The body of the loop of find_files_recursive for the k-th entry of dir,
\* once the entry is fetched: the path is pushed when its string matches,
\* and a directory is searched in turn.
visit_entry(g, dir, k, w, fail) ==
    LET path == entry_path(dir, FileTree[dir][k])
        path_str == to_str(path)
    IN  only({IF is_dir(path)
              THEN find_files_recursive(g, path, pushed, fail)
              ELSE pushed :
                  pushed \in {IF path_str # <<>>
                                  /\ matches(g, path_str[1]) = Return(TRUE)
                              THEN [w EXCEPT !.result = Append(@, path)]
                              ELSE w}})

\* The loop of find_files_recursive over the entries of dir, from the k-th
\* entry on (`entry?`, then the body, whose `?` ends the loop).
entries_loop(g, dir, k, w, fail) ==
    IF k > Len(FileTree[dir]) THEN w
    ELSE only({IF fetched.tag # "Ok" THEN fetched
               ELSE only({IF below.tag # "Ok" THEN below
                          ELSE entries_loop(g, dir, k + 1, below, fail) :
                              below \in {visit_entry(g, dir, k, fetched, fail)}}) :
                   fetched \in {read(w, next_entry(dir, k), fail)}})

\* find_files_recursive(dir, results): `fs::read_dir(dir)?`, then the loop.
find_files_recursive(g, dir, w, fail) ==
    IF ~is_dir(dir) THEN w
    ELSE only({IF opened.tag # "Ok" THEN opened
               ELSE entries_loop(g, dir, 1, opened, fail) :
                   opened \in {read(w, read_dir(dir), fail)}})

\* A merge that pushes every file of an alternative.
push_all(result, files, k) == result \o SubSeq(files, k, Len(files))

RECURSIVE push_new(_, _, _)
\* for file in files { if !result.contains(&file) { result.push(file) } }
push_new(result, files, k) ==
    IF k > Len(files) THEN result
    ELSE push_new(IF \E j \in 1..Len(result) : result[j] = files[k]
                  THEN result ELSE Append(result, files[k]),
                  files, k + 1)

RECURSIVE find_files_seen(_, _, _, _, _)
RECURSIVE alternatives_loop(_, _, _, _, _, _)

\* The loop of find_files over the expanded alternatives, from the k-th
\* on (`pattern_glob.find_files(base_dir)?`, then the pushes).  `seen`
\* holds the patterns whose find_files call is still running: an
\* alternative among them starts the same call again, and the recursion
\* never ends.
alternatives_loop(alternatives, k, base_dir, w, fail, seen) ==
    IF k > Len(alternatives) THEN w
    ELSE IF alternatives[k] \in seen THEN [w EXCEPT !.tag = "Diverges"]
    ELSE LET pattern_glob == GlobPattern_new(alternatives[k])
         IN  IF pattern_glob.tag # "Return" THEN [w EXCEPT !.tag = "Panic"]
             ELSE only({IF files.tag # "Ok" THEN files
                        ELSE alternatives_loop(
                                 alternatives, k + 1, base_dir,
                                 [files EXCEPT
                                     !.result = push_new(w.result, files.result, 1)],
                                 fail, seen) :
                            files \in {find_files_seen(pattern_glob.val, base_dir,
                                                       w, fail, seen)}})

\* find_files(base_dir) of the compiled glob g, below the calls of `seen`,
\* continuing the reads of w with a result list of its own.
find_files_seen(g, base_dir, w, fail, seen) ==
    only({IF g.expanded_patterns # <<>>
          THEN alternatives_loop(g.expanded_patterns, 1, base_dir, fresh, fail,
                                 seen \cup {g.pattern})
          ELSE find_files_recursive(g, base_dir, fresh, fail) :
              fresh \in {[w EXCEPT !.result = <<>>]}})

\* GlobPattern::find_files(base_dir) when the read number fail fails (none
\* fails when fail = 0): the walk with tag Ok (the result is returned),
\* Err (the I/O error is returned), Panic or Diverges.
find_files(g, base_dir, fail) ==
    find_files_seen(g, base_dir, Walking(<<>>, <<>>), fail, {})

(***************************************************************************)
(* Inputs.                                                                 *)
(***************************************************************************)
StringsUpTo(S, n) == UNION {[1..k -> S] : k \in 0..n}

PatternChars == {"a", "*", "+", "?", "^", "$", "\\"}

TextChars == {"a", "b", "\n", "e_acute"}

ExamplePatterns ==
    { <<"a", "*", "*">>,
      <<"^", "a", "*", "$">>,
      <<"a", "b", "*", "c">>,
      <<"a", "b", "+", "c">>,
      <<"a", "b", "?", "c">>,
      <<"^", "a", "b", "c", "$">>,
      <<"\\", "d", "+">>,
      <<"a", ".", "\\", "D">>,
      <<"*", "i", "n", "v", "a", "l", "i", "d">>,
      <<"a", "\\">>,
      <<"a", "\\", "\\">>,
      <<"\\", "\\", "\\">>,
      <<"^", "\\">> }

ExampleTexts ==
    { <<"a", "c">>,
      <<"a", "b", "c">>,
      <<"a", "b", "b", "c">>,
      <<"a", "b", "c", "x">>,
      <<"x", "a", "b", "c">>,
      <<"a", "a", "b">>,
      <<"a", "b", "c", "1", "2", "3", "d", "e", "f">>,
      <<"a", "\\">> }

Patterns == StringsUpTo(PatternChars, MaxPatLen) \cup ExamplePatterns

Texts == StringsUpTo(TextChars, MaxTextLen) \cup ExampleTexts

Replacements == {<<>>, <<"x">>}

(***************************************************************************)
(* Inputs of the glob engine.                                              *)
(***************************************************************************)
MaxGlobLen == 3

MaxCandidateLen == 2

\* One walk of FileTree makes 10 reads; the failing read is one of the
\* first MaxFail, or none (0).
MaxFail == 12

GlobChars == {"a", "*", "?", "[", "]", "\\", "{", "}", ","}

CandidateChars == {"a", "*", "{", "}"}

\* The patterns of the unit tests of glob.rs and of tests/glob_tests.rs, and
\* patterns with empty options, unbalanced braces, escapes and non-ASCII
\* characters.
ExampleGlobs ==
    { <<"h", "e", "l", "l", "o">>,
      <<"h", "?", "l", "l", "o">>,
      <<"h", "*", "o">>,
      <<"h", "[", "a", "e", "]", "l", "l", "o">>,
      <<"h", "[", "a", "-", "z", "]", "l", "l", "o">>,
      <<"h", "[", "!", "a", "e", "i", "o", "u", "]", "l", "l", "o">>,
      <<"h", "e", "l", "l", "o", ".", "{", "r", "s", ",", "t", "x", "t", ",", "m", "d", "}">>,
      <<"{", "s", "r", "c", ",", "t", "e", "s", "t", "s", "}", "/", "*", ".", "r", "s">>,
      <<"{", "s", "r", "c", "/", "{", "l", "i", "b", ",", "b", "i", "n", "}", ",", "t", "e", "s", "t", "s", "}", "/", "*", ".", "r", "s">>,
      <<"a", "{", "b", ",", "c", "}", "d">>,
      <<"a", "{", "b", ",", "}", "d">>,
      <<"a", "{", ",", "b", "}", "d">>,
      <<"{", "a", ",", "b", "}", "{", "c", ",", "d", "}">>,
      <<"{", "a", ",", "b", "}", "{", "c", ",", "}">>,
      <<"a", "}", "b", "{", "c">>,
      <<"{", "a", "}", "}", "{">>,
      <<"\\", "*", "{", "a", ",", "b", "}">>,
      <<"\\", "{", "a", ",", "b", "\\", "}">>,
      <<"a", "\\", "?">>,
      <<"\\", "[", "a", "]">>,
      <<"d", "/", "a", "/", "*">>,
      <<"d", "/", "*">>,
      <<"*", "c">>,
      <<"{", "*", "a", ",", "*", "c", "}">>,
      <<"{", "d", "/", "*", ",", "*", "c", "}">>,
      <<"{", "*", "c", ",", "d", "/", "*", "}">>,
      <<"d", "/", "{", "a", ",", "c", "}">>,
      <<"e_acute", "{", "a", ",", "b", "}">>,
      <<"e_acute", "e_acute", "{", "}">>,
      <<"{", "e_acute", ",", "a", "}">> }

\* The candidates of the unit tests, and candidates for the patterns above.
ExampleCandidates ==
    { <<"h", "e", "l", "l", "o">>,
      <<"h", "a", "l", "l", "o">>,
      <<"h", "z", "l", "l", "o">>,
      <<"h", "b", "l", "l", "o">>,
      <<"h", "i", "l", "l", "o">>,
      <<"h", "1", "l", "l", "o">>,
      <<"h", "l", "l", "o">>,
      <<"h", "e", "l", "l", "o", "o">>,
      <<"h", "o">>,
      <<"w", "o", "r", "l", "d">>,
      <<"h", "e", "l", "l", "o", " ", "w", "o", "r", "l", "d">>,
      <<"a", "n", "y", "t", "h", "i", "n", "g">>,
      <<"h", "e", "l", "l", "o", ".", "r", "s">>,
      <<"h", "e", "l", "l", "o", ".", "m", "d">>,
      <<"h", "e", "l", "l", "o", ".", "g", "o">>,
      <<"s", "r", "c", "/", "a", ".", "r", "s">>,
      <<"t", "e", "s", "t", "s", "/", "a", ".", "r", "s">>,
      <<"d", "o", "c", "s", "/", "a", ".", "r", "s">>,
      <<"s", "r", "c", "/", "l", "i", "b", "/", "a", ".", "r", "s">>,
      <<"s", "r", "c", "/", "b", "i", "n", "/", "a", ".", "r", "s">>,
      <<"a", "b", "d">>,
      <<"a", "c", "d">>,
      <<"a", "d">>,
      <<"a", "c">>,
      <<"b", "d">>,
      <<"b">>,
      <<"a", "}", "b", "{", "c">>,
      <<"*", "a">>,
      <<"b", "a">>,
      <<"{", "a", ",", "b", "}">>,
      <<"a", "?">>,
      <<"a", "b">>,
      <<"[", "a", "]">>,
      <<"e_acute">>,
      <<"e_acute", "a">>,
      <<"1">>, <<"c">>, <<"d">>, <<"e">>, <<"z">>, <<"-">>, <<"!">>, <<"]">> }

RECURSIVE Flatten(_)
\* The concatenation of a sequence of sequences.
Flatten(seqs) == IF seqs = <<>> THEN <<>> ELSE Head(seqs) \o Flatten(Tail(seqs))

\* The character classes made of at most MaxClassItems items, an item being
\* a listed character or a range x-y with x <= y, with and without `!`.
MaxClassItems == 2

ClassChars == {"1", "a", "c", "e"}

ClassItems ==
    {<<x>> : x \in ClassChars} \cup
    {range \in {<<x, "-", y>> : x \in ClassChars, y \in ClassChars} :
         code_point[range[1]] <= code_point[range[3]]}

ClassGlobs ==
    {<<"[">> \o negation \o Flatten(items) \o <<"]">> :
         negation \in {<<>>, <<"!">>},
         items \in StringsUpTo(ClassItems, MaxClassItems) \ {<<>>}}

\* Classes with a reversed range (start code point above the end), alone
\* or beside a listed character, with and without `!`; `[z-a]` among them.
ReversedRangeGlobs ==
    {<<"[">> \o negation \o before \o range \o after \o <<"]">> :
         negation \in {<<>>, <<"!">>},
         before \in {<<>>, <<"c">>},
         after \in {<<>>, <<"c">>},
         range \in {<<"z", "-", "a">>} \cup
                   {r \in {<<x, "-", y>> : x \in ClassChars, y \in ClassChars} :
                        code_point[r[1]] > code_point[r[3]]}}

\* Sources that end inside a class: a `[` that no `]` follows, after
\* nothing or a literal, with up to MaxClassItems items of which the last
\* may be cut short.
UnclosedItems ==
    { <<"a">>, <<"-">>, <<"*">>, <<"!">>,
      <<"a", "-", "c">>, <<"c", "-", "a">> }

UnclosedClassGlobs ==
    {before \o <<"[">> \o negation \o Flatten(items) :
         before \in {<<>>, <<"a">>},
         negation \in {<<>>, <<"!">>},
         items \in StringsUpTo(UnclosedItems, MaxClassItems)}

Globs ==
    StringsUpTo(GlobChars, MaxGlobLen) \cup ExampleGlobs \cup ClassGlobs
        \cup ReversedRangeGlobs \cup UnclosedClassGlobs

Candidates == StringsUpTo(CandidateChars, MaxCandidateLen) \cup ExampleCandidates

(***************************************************************************)
(* The state machine: a pattern is compiled once, then one operation of    *)
(* the compiled pattern runs on one text.                                  *)
(***************************************************************************)
Unset == [tag |-> "Unset"]

Init ==
    /\ pattern \in Patterns
    /\ compiled = [ok |-> FALSE, elements |-> <<>>]
    /\ text = <<>>
    /\ replacement = <<>>
    /\ op = "none"
    /\ pc = "new"
    /\ start_pos = 0
    /\ results = <<>>
    /\ elem_pos = 0
    /\ current_pos = 0
    /\ ret = Unset
    /\ glob = Unset
    /\ fail_at = 0
    /\ reads = <<>>
    /\ args = Unset

\* SimplePattern::new(pattern).
New ==
    /\ pc = "new"
    /\ compiled' = SimplePattern_new(pattern)
    /\ pc' = IF compiled'.ok THEN "ready" ELSE "invalid"
    /\ UNCHANGED <<pattern, text, replacement, op, start_pos, results,
                   elem_pos, current_pos, ret>>

\* is_match(text): find(text).is_some().
IsMatch(t) ==
    /\ pc = "ready"
    /\ op' = "is_match"
    /\ text' = t
    /\ LET r == find(compiled.elements, t)
       IN  /\ ret' = IF r.tag = "Panic" THEN Panic ELSE Return(r.tag = "Some")
           /\ pc' = IF r.tag = "Panic" THEN "panic" ELSE "done"
    /\ UNCHANGED <<pattern, compiled, replacement, start_pos, results,
                   elem_pos, current_pos>>

\* find(text) is entered.
FindCall(t) ==
    /\ pc = "ready"
    /\ op' = "find"
    /\ text' = t
    /\ start_pos' = 0
    /\ pc' = "find"
    /\ UNCHANGED <<pattern, compiled, replacement, results, elem_pos,
                   current_pos, ret>>

\* What find does with a find_from that returned None: the only attempt of
\* a start-anchored pattern returns None, the scan goes on otherwise.
FindAfterNone ==
    IF has_start_anchor(compiled.elements)
    THEN /\ ret' = Return(NoMatch)
         /\ pc' = "done"
         /\ UNCHANGED start_pos
    ELSE /\ start_pos' = start_pos + 1
         /\ pc' = "find"
         /\ UNCHANGED ret

\* find calls find_from(text, start_pos), or leaves its scan with None.
FindAttempt ==
    /\ pc = "find"
    /\ IF has_start_anchor(compiled.elements) \/ start_pos < byte_len(text)
       THEN IF start_anchor_rejects(compiled.elements, text, start_pos)
            THEN FindAfterNone /\ UNCHANGED <<elem_pos, current_pos>>
            ELSE /\ pc' = "find_from"
                 /\ elem_pos' = 0
                 /\ current_pos' = start_pos
                 /\ UNCHANGED <<start_pos, ret>>
       ELSE /\ ret' = Return(NoMatch)
            /\ pc' = "done"
            /\ UNCHANGED <<start_pos, elem_pos, current_pos>>
    /\ UNCHANGED <<pattern, compiled, text, replacement, op, results>>

\* One iteration of the element loop of find_from.
FindFromElem ==
    /\ pc = "find_from"
    /\ loop_continues(actual_elements(compiled.elements), text, elem_pos, current_pos)
    /\ LET r == match_step(actual_elements(compiled.elements)[elem_pos + 1],
                           text, current_pos)
       IN  CASE r.tag = "Continue" ->
                  /\ elem_pos' = elem_pos + 1
                  /\ current_pos' = r.pos
                  /\ UNCHANGED <<pc, start_pos, ret>>
             [] r.tag = "None" ->
                  FindAfterNone /\ UNCHANGED <<elem_pos, current_pos>>
             [] OTHER ->
                  /\ pc' = "panic"
                  /\ ret' = Panic
                  /\ UNCHANGED <<start_pos, elem_pos, current_pos>>
    /\ UNCHANGED <<pattern, compiled, text, replacement, op, results>>

\* The element loop of find_from is over: end anchor, offsets, Match.
FindFromEnd ==
    /\ pc = "find_from"
    /\ ~loop_continues(actual_elements(compiled.elements), text, elem_pos, current_pos)
    /\ LET r == find_from_end(compiled.elements, text, start_pos, current_pos)
       IN  CASE r.tag = "Some" ->
                  /\ ret' = Return(r)
                  /\ pc' = "done"
                  /\ UNCHANGED start_pos
             [] r.tag = "None" -> FindAfterNone
             [] OTHER ->
                  /\ pc' = "panic"
                  /\ ret' = Panic
                  /\ UNCHANGED start_pos
    /\ UNCHANGED <<pattern, compiled, text, replacement, op, results,
                   elem_pos, current_pos>>

\* find_all(text) is entered.
FindAllCall(t) ==
    /\ pc = "ready"
    /\ op' = "find_all"
    /\ text' = t
    /\ start_pos' = 0
    /\ results' = <<>>
    /\ pc' = "find_all"
    /\ UNCHANGED <<pattern, compiled, replacement, elem_pos, current_pos, ret>>

\* One iteration of the loop of find_all.
FindAllStep ==
    /\ pc = "find_all"
    /\ start_pos <= byte_len(text)
    /\ Len(results) < MaxResults
    /\ LET r == find_from(compiled.elements, text, start_pos)
       IN  CASE r.tag = "Some" ->
                  /\ results' = Append(results, r.m)
                  /\ start_pos' = next_start_pos(r.m)
                  /\ UNCHANGED <<pc, ret>>
             [] r.tag = "None" ->
                  /\ start_pos' = start_pos + 1
                  /\ UNCHANGED <<pc, results, ret>>
             [] OTHER ->
                  /\ pc' = "panic"
                  /\ ret' = Panic
                  /\ UNCHANGED <<start_pos, results>>
    /\ UNCHANGED <<pattern, compiled, text, replacement, op, elem_pos,
                   current_pos>>

\* The loop of find_all is over: the matches are returned.
FindAllReturn ==
    /\ pc = "find_all"
    /\ start_pos > byte_len(text)
    /\ ret' = Return(results)
    /\ pc' = "done"
    /\ UNCHANGED <<pattern, compiled, text, replacement, op, start_pos,
                   results, elem_pos, current_pos>>

\* What the state keeps of an operation's outcome.
Outcome(r) ==
    /\ ret' = r
    /\ pc' = CASE r.tag = "Return" -> "done"
               [] r.tag = "Panic" -> "panic"
               [] OTHER -> "diverged"

\* replace_all(text, replacement).
ReplaceAll(t, rep) ==
    /\ pc = "ready"
    /\ op' = "replace_all"
    /\ text' = t
    /\ replacement' = rep
    /\ Outcome(replace_all(compiled.elements, t, rep))
    /\ UNCHANGED <<pattern, compiled, start_pos, results, elem_pos, current_pos>>

\* split(text).
Split(t) ==
    /\ pc = "ready"
    /\ op' = "split"
    /\ text' = t
    /\ Outcome(split(compiled.elements, t))
    /\ UNCHANGED <<pattern, compiled, replacement, start_pos, results,
                   elem_pos, current_pos>>

\* The regular-expression engine never touches the state of the glob engine.
glob_unchanged == UNCHANGED <<glob, fail_at, reads, args>>

\* The argument maps that Config::new is called with for a regex source p:
\* none, a search key alone, and p under the name `regex` or `r`, alone or
\* beside other arguments.
ArgMaps(p) ==
    LET test == <<"t", "e", "s", "t">>
    IN  { [key \in {} |-> <<>>],
          "key" :> <<test>>,
          "regex" :> <<p>>,
          "r" :> <<p>>,
          ("key" :> <<test>>) @@ ("regex" :> <<p>>),
          ("k" :> <<test>>) @@ ("r" :> <<p>>),
          ("regex" :> <<>>) @@ ("r" :> <<p>>),
          ("regex" :> <<p>>) @@ ("r" :> <<test>>),
          ("regex" :> <<test>>) @@ ("r" :> <<p>>),
          ("content" :> <<test>>) @@ ("regex" :> <<p>>) }

\* Config::new(a).
ConfigNew(a) ==
    /\ pc = "new"
    /\ op' = "Config::new"
    /\ args' = a
    /\ ret' = Config_new(a)
    /\ pc' = IF ret'.tag = "Ok" THEN "config_ok" ELSE "config_err"
    /\ UNCHANGED <<pattern, compiled, text, replacement, start_pos, results,
                   elem_pos, current_pos, glob, fail_at, reads>>

Next ==
    \/ New /\ glob_unchanged
    \/ \E t \in Texts : IsMatch(t) /\ glob_unchanged
    \/ \E t \in Texts : FindCall(t) /\ glob_unchanged
    \/ FindAttempt /\ glob_unchanged
    \/ FindFromElem /\ glob_unchanged
    \/ FindFromEnd /\ glob_unchanged
    \/ \E t \in Texts : FindAllCall(t) /\ glob_unchanged
    \/ FindAllStep /\ glob_unchanged
    \/ FindAllReturn /\ glob_unchanged
    \/ \E t \in Texts, rep \in Replacements : ReplaceAll(t, rep) /\ glob_unchanged
    \/ \E t \in Texts : Split(t) /\ glob_unchanged
    \/ \E a \in ArgMaps(pattern) : ConfigNew(a)

Spec == Init /\ [][Next]_vars

(***************************************************************************)
(* The state machine of the glob engine: a glob is compiled once, then it  *)
(* matches one candidate or walks FileTree once.                           *)
(***************************************************************************)
InitGlob ==
    /\ pattern \in Globs
    /\ compiled = [ok |-> FALSE, elements |-> <<>>]
    /\ text = <<>>
    /\ replacement = <<>>
    /\ op = "none"
    /\ pc = "glob_new"
    /\ start_pos = 0
    /\ results = <<>>
    /\ elem_pos = 0
    /\ current_pos = 0
    /\ ret = Unset
    /\ glob = Unset
    /\ fail_at = 0
    /\ reads = <<>>
    /\ args = Unset

\* The glob engine never touches the state of the regular-expression engine.
regex_unchanged ==
    UNCHANGED <<compiled, replacement, start_pos, results, elem_pos,
                current_pos, args>>

\* GlobPattern::new(pattern).
GlobNew ==
    /\ pc = "glob_new"
    /\ LET g == GlobPattern_new(pattern)
       IN  IF g.tag = "Return"
           THEN glob' = g.val /\ pc' = "glob_ready" /\ UNCHANGED ret
           ELSE ret' = g /\ pc' = "panic" /\ UNCHANGED glob
    /\ UNCHANGED <<pattern, text, op, fail_at, reads>>
    /\ regex_unchanged

\* matches(text).
Matches(t) ==
    /\ pc = "glob_ready"
    /\ op' = "matches"
    /\ text' = t
    /\ Outcome(matches(glob, t))
    /\ UNCHANGED <<pattern, glob, fail_at, reads>>
    /\ regex_unchanged

\* The I/O error that find_files returns.
IoError == [tag |-> "Err"]

\* find_files(BaseDir), the read number fail failing.
FindFiles(fail) ==
    /\ pc = "glob_ready"
    /\ op' = "find_files"
    /\ fail_at' = fail
    /\ \E w \in {find_files(glob, BaseDir, fail)} :
           /\ CASE w.tag = "Ok" -> Outcome(Return(w.result))
                [] w.tag = "Err" -> ret' = IoError /\ pc' = "io_error"
                [] w.tag = "Panic" -> Outcome(Panic)
                [] OTHER -> Outcome(Diverges)
           /\ reads' = w.reads
    /\ UNCHANGED <<pattern, text, glob>>
    /\ regex_unchanged

NextGlob ==
    \/ GlobNew
    \/ \E t \in Candidates : Matches(t)
    \/ \E fail \in 0..MaxFail : FindFiles(fail)

SpecGlob == InitGlob /\ [][NextGlob]_vars

(***************************************************************************)
(* The claims.                                                             *)
(***************************************************************************)

\* C1: every iteration of the loop of find_all strictly increases the
\* cursor start_pos, for every compiled pattern and text, so the loop ends.
C1_CursorStrictlyIncreases ==
    [][(pc = "find_all" /\ pc' = "find_all") => start_pos' > start_pos]_vars

\* Two successive results of find_all: the later one starts at or after the
\* end of the earlier one, and after its start when the earlier is empty.
ForwardProgress(m1, m2) ==
    /\ m2.start >= m1.end
    /\ (m1.end = m1.start => m2.start > m1.start)

\* C2: at every point of find_all the results collected so far are
\* non-overlapping and forward-progressing.
C2_ResultsForwardProgressing ==
    op = "find_all" =>
        \A i \in 1..(Len(results) - 1) : ForwardProgress(results[i], results[i + 1])

\* C3: matching is total: is_match, find and find_all never panic on a
\* pattern that SimplePattern::new accepted, whatever the text.
C3_MatchingNeverPanics ==
    op \in {"is_match", "find", "find_all"} => pc # "panic"

\* The character offsets of the text, its end included, at which an attempt
\* of the elements succeeds.
MatchingOffsets(elements, t) ==
    {k \in 0..Len(t) : find_from(elements, t, k).tag = "Some"}

Min(S) == CHOOSE x \in S : \A y \in S : x <= y

\* C4: for a pattern without a start anchor, find returns Some(m) exactly
\* when an attempt succeeds at some character offset of the text, m is the
\* match of the smallest such offset, and is_match is true exactly then.
C4_FindFirstSuccess ==
    (pc = "done" /\ ~has_start_anchor(compiled.elements)) =>
        LET offs == MatchingOffsets(compiled.elements, text)
        IN  /\ op = "find" =>
                /\ (ret.val.tag = "Some") <=> (offs # {})
                /\ ret.val.tag = "Some" =>
                       ret.val.m = find_from(compiled.elements, text, Min(offs)).m
            /\ op = "is_match" => (ret.val <=> (offs # {}))

\* The Match of an attempt that began at character position sp and reached
\* character position cp: byte offsets of both, and the text between them.
ExactMatch(m, t, sp, cp) ==
    /\ sp <= cp
    /\ cp <= Len(t)
    /\ m.start = byte_offset(t, sp)
    /\ m.end = byte_offset(t, cp)
    /\ m.text = SubSeq(t, sp + 1, cp)

\* C5: every Match that find returns and every Match that find_all collects
\* reports the byte offset of the position where its attempt began, the
\* byte offset of the position the attempt reached, and the text between.
C5_MatchOffsetsExact ==
    [][/\ (op = "find" /\ pc = "find_from" /\ pc' = "done"
              /\ ret'.val.tag = "Some")
          => ExactMatch(ret'.val.m, text, start_pos, current_pos)
       /\ (pc = "find_all" /\ Len(results') > Len(results))
          => \E cp \in start_pos..Len(text) :
                 ExactMatch(results'[Len(results')], text, start_pos, cp)
      ]_vars

\* C6: the pattern '' matches the empty text and no other text.
C6_EmptyPatternMatchesOnlyEmpty ==
    (pattern = <<>> /\ op = "is_match" /\ pc = "done") =>
        (ret.val <=> (text = <<>>))

\* C7: with an end anchor, an attempt of find succeeds only at the end of
\* the text or just before a newline, and `^E$` matches a newline-free
\* text only by consuming all of it.
C7_EndAnchorAtEnd ==
    (op = "find" /\ pc = "done" /\ ret.val.tag = "Some"
        /\ has_end_anchor(compiled.elements)) =>
        /\ \/ current_pos = Len(text)
           \/ (current_pos < Len(text) /\ text[current_pos + 1] = "\n")
        /\ (has_start_anchor(compiled.elements)
               /\ \A i \in 1..Len(text) : text[i] # "\n")
           => (ret.val.m.start = 0 /\ ret.val.m.end = byte_len(text))

\* The length of the longest run of characters from position cp that
\* satisfy the element.
RunLength(elem, t, cp) ==
    CHOOSE k \in 0..(Len(t) - cp) :
        /\ \A j \in 1..k : matches_element(elem, t[cp + j])
        /\ (cp + k = Len(t) \/ ~matches_element(elem, t[cp + k + 1]))

\* The element the element loop of find_from is at.
CurrentElement == actual_elements(compiled.elements)[elem_pos + 1]

\* The element loop goes on to the next element, k characters further.
Advances(k) ==
    /\ pc' = "find_from"
    /\ elem_pos' = elem_pos + 1
    /\ current_pos' = current_pos + k

\* The attempt is given up: find_from returns None.
AttemptFails ==
    \/ pc' = "find"
    \/ (pc' = "done" /\ ret'.val.tag = "None")

\* The unit-test examples of the quantifiers.
QuantifierExamples ==
    (op = "is_match" /\ pc = "done") =>
        /\ (pattern = <<"a", "b", "*", "c">>
               /\ text \in {<<"a", "c">>, <<"a", "b", "c">>, <<"a", "b", "b", "c">>})
           => ret.val
        /\ (pattern = <<"a", "b", "+", "c">> /\ text = <<"a", "c">>) => ~ret.val
        /\ (pattern = <<"a", "b", "?", "c">> /\ text = <<"a", "b", "b", "c">>)
           => ~ret.val

\* C8: a step of the element loop on a quantified element is greedy: `*`
\* consumes the maximal run and goes on, `+` does the same and gives the
\* attempt up iff the run is empty, `?` consumes one character of the run
\* if there is one and never fails.
C8_QuantifiersGreedy ==
    [][/\ QuantifierExamples'
       /\ (pc = "find_from"
              /\ loop_continues(actual_elements(compiled.elements), text,
                                elem_pos, current_pos)
              /\ CurrentElement.kind = "Quantifier")
          => LET run == RunLength(CurrentElement.elem, text, current_pos)
             IN  CASE CurrentElement.qt = "ZeroOrMore" -> Advances(run)
                   [] CurrentElement.qt = "OneOrMore" ->
                        IF run = 0 THEN AttemptFails ELSE Advances(run)
                   [] OTHER -> Advances(IF run > 0 THEN 1 ELSE 0)
      ]_vars

\* The characters of t that start at a byte offset in lo..(hi - 1).
TextBetween(t, lo, hi) ==
    LET idx == {k \in 1..Len(t) :
                   lo <= byte_offset(t, k - 1) /\ byte_offset(t, k - 1) < hi}
    IN  [i \in 1..Cardinality(idx) |-> t[Min(idx) + i - 1]]

\* The end offset of the match before the i-th one (0 before the first).
EndBefore(ms, i) == IF i = 1 THEN 0 ELSE ms[i - 1].end

RECURSIVE ReplacedUpTo(_, _, _, _)
\* For the first i matches in order: the text between the previous match
\* and the match, then the replacement.
ReplacedUpTo(t, ms, rep, i) ==
    IF i = 0 THEN <<>>
    ELSE ReplacedUpTo(t, ms, rep, i - 1)
            \o TextBetween(t, EndBefore(ms, i), ms[i].start) \o rep

RECURSIVE MatchedLength(_)
\* The number of characters the matches cover.
MatchedLength(ms) ==
    IF ms = <<>> THEN 0 ELSE Len(Head(ms).text) + MatchedLength(Tail(ms))

RECURSIVE Interleave(_, _)
\* Segment, match, segment, match, ..., segment.
Interleave(segs, ms) ==
    IF segs = <<>> THEN <<>>
    ELSE IF ms = <<>> THEN Head(segs) \o Interleave(Tail(segs), <<>>)
    ELSE Head(segs) \o Head(ms).text \o Interleave(Tail(segs), Tail(ms))

\* C10: split returns, for k matches of find_all, the k + 1 segments
\* between them (empty at the start, at the end and between adjacent
\* matches), and interleaving segments and matches gives the text back.
C10_SplitRoundTrips ==
    (op = "split" /\ pc = "done") =>
        LET ms == find_all(compiled.elements, text).val
            k == Len(ms)
        IN  /\ Len(ret.val) = k + 1
            /\ \A i \in 1..k : ret.val[i] = TextBetween(text, EndBefore(ms, i), ms[i].start)
            /\ ret.val[k + 1] = TextBetween(text, EndBefore(ms, k + 1), byte_len(text))
            /\ Interleave(ret.val, ms) = text

\* A segment of the candidate fits a component.
Fits(component, segment) ==
    CASE component.kind = "Literal" -> segment = component.lit
      [] component.kind = "SingleWildcard" -> Len(segment) = 1
      [] component.kind = "MultiWildcard" -> TRUE
      [] OTHER -> /\ Len(segment) = 1
                  /\ (segment[1] \in component.chars) # component.negated

RECURSIVE CanBeCut(_, _)
\* The candidate c can be cut into consecutive segments, one per component
\* in order, each fitting its component.
CanBeCut(components, c) ==
    IF components = <<>> THEN c = <<>>
    ELSE \E k \in 0..Len(c) :
             /\ Fits(Head(components), SubSeq(c, 1, k))
             /\ CanBeCut(Tail(components), SubSeq(c, k + 1, Len(c)))

\* The glob is compiled into components: its source does not hold both
\* braces.
NotExpanded == ~(contains(pattern, "{") /\ contains(pattern, "}"))

\* C11: for a brace-free glob, matches(c) returns, and returns true iff the
\* whole candidate can be cut into consecutive segments, one per component
\* in order: the literal itself, one character, any run (the empty one
\* included), one character of the class.
C11_MatchesIffSegmented ==
    (op = "matches" /\ NotExpanded) =>
        /\ pc = "done"
        /\ ret = Return(CanBeCut(glob.components, text))

\* C11 witness: `h*o` matched 'hello' (the wildcard took a run of three),
\* and the glob has the three components the claim speaks of.
C11_Witness ==
    /\ op = "matches"
    /\ pattern = <<"h", "*", "o">>
    /\ text = <<"h", "e", "l", "l", "o">>
    /\ Len(glob.components) = 3
    /\ ret = Return(TRUE)

\* The source of the glob holds both braces: it is compiled by brace
\* expansion.
HasBracePair == contains(pattern, "{") /\ contains(pattern, "}")

\* The candidate c matches the pattern string alternative, compiled and
\* matched on its own.
MatchesAlone(alternative, c) ==
    /\ GlobPattern_new(alternative).tag = "Return"
    /\ matches(GlobPattern_new(alternative).val, c) = Return(TRUE)

\* C12: for a glob whose source holds both `{` and `}`, what matches(c)
\* returns is true iff c matches at least one of the alternatives that
\* brace expansion produces from the source (none of them, for `{}`).
C12_MatchesIffSomeAlternative ==
    (op = "matches" /\ HasBracePair /\ pc = "done") =>
        ret = Return(\E k \in 1..Len(expand_alternatives(pattern).val) :
                         MatchesAlone(expand_alternatives(pattern).val[k], text))

\* The indices of the occurrences of the character c in s.
Occurrences(s, c) == {k \in 1..Len(s) : s[k] = c}

\* The source has the shape pre{o1,...,on}post: one `{`, one `}` after it,
\* something between them, and neither escapes nor non-ASCII characters.
OneGroup(s) ==
    /\ Cardinality(Occurrences(s, "{")) = 1
    /\ Cardinality(Occurrences(s, "}")) = 1
    /\ \E i \in Occurrences(s, "{") : \E j \in Occurrences(s, "}") : i + 1 < j
    /\ ~contains(s, "\\")
    /\ ~contains(s, "e_acute")

\* The index of the only occurrence of c in s.
IndexOf(s, c) == CHOOSE k \in Occurrences(s, c) : TRUE

RECURSIVE CommaSeparated(_)
\* The comma-separated options of a brace-free string: one more than it
\* has commas, empty ones included.
CommaSeparated(s) ==
    IF ~contains(s, ",") THEN <<s>>
    ELSE LET k == CHOOSE i \in Occurrences(s, ",") :
                      \A j \in Occurrences(s, ",") : i <= j
         IN  <<SubSeq(s, 1, k - 1)>> \o CommaSeparated(SubSeq(s, k + 1, Len(s)))

\* [pre+o1+post, ..., pre+on+post] for the source pre{o1,...,on}post.
OneGroupExpansion(s) ==
    LET open == IndexOf(s, "{")
        close == IndexOf(s, "}")
        options == CommaSeparated(SubSeq(s, open + 1, close - 1))
    IN  [k \in 1..Len(options) |->
            SubSeq(s, 1, open - 1) \o options[k] \o SubSeq(s, close + 1, Len(s))]

\* C13: brace expansion of pre{o1,...,on}post (brace-free parts, an option
\* may be empty) is exactly [pre+o1+post, ..., pre+on+post], one
\* alternative per comma-separated option, in option order.
C13_OneGroupExpansion ==
    (glob # Unset /\ OneGroup(pattern)) =>
        glob.expanded_patterns = OneGroupExpansion(pattern)

\* The nesting depth of braces after the first k characters of s.
DepthAt(s, k) ==
    Cardinality({i \in 1..k : s[i] = "{"}) - Cardinality({i \in 1..k : s[i] = "}"})

\* Every brace of s has its partner.
Balanced(s) ==
    /\ \A k \in 1..Len(s) : DepthAt(s, k) >= 0
    /\ DepthAt(s, Len(s)) = 0

\* The commas of s that lie outside every group of s.
TopCommas(s) == {k \in 1..Len(s) : s[k] = "," /\ DepthAt(s, k) = 0}

\* The k-th place at which s is split: 0, its top-level commas in order,
\* and the place after its end.
SplitPlace(s, k) ==
    IF k = 0 THEN 0
    ELSE IF k > Cardinality(TopCommas(s)) THEN Len(s) + 1
    ELSE CHOOSE c \in TopCommas(s) :
             Cardinality({d \in TopCommas(s) : d < c}) = k - 1

\* The options of a group with the content s: s split at its top-level
\* commas; an empty group has no option.
GroupOptions(s) ==
    IF s = <<>> THEN <<>>
    ELSE [k \in 1..(Cardinality(TopCommas(s)) + 1) |->
             SubSeq(s, SplitPlace(s, k - 1) + 1, SplitPlace(s, k) - 1)]

\* pre + x + y for every x of xs and y of ys, x varying slowest.
Combinations(pre, xs, ys) ==
    [n \in 1..(Len(xs) * Len(ys)) |->
        pre \o xs[((n - 1) \div Len(ys)) + 1] \o ys[((n - 1) % Len(ys)) + 1]]

RECURSIVE Alternatives(_)
\* The alternatives of a balanced source: one per combination of options,
\* the leftmost group varying slowest.
Alternatives(s) ==
    IF ~contains(s, "{") THEN <<s>>
    ELSE LET open == CHOOSE i \in Occurrences(s, "{") :
                         \A j \in Occurrences(s, "{") : i <= j
             close == CHOOSE j \in (open + 1)..Len(s) :
                          /\ DepthAt(s, j) = DepthAt(s, open - 1)
                          /\ \A m \in (open + 1)..(j - 1) :
                                 DepthAt(s, m) > DepthAt(s, open - 1)
             options == GroupOptions(SubSeq(s, open + 1, close - 1))
         IN  Flatten([k \in 1..Len(options) |->
                         Combinations(SubSeq(s, 1, open - 1),
                                      Alternatives(options[k]),
                                      Alternatives(SubSeq(s, close + 1, Len(s))))])

\* The source has several groups (nested or side by side), all balanced,
\* and neither escapes nor non-ASCII characters.
BalancedGroups(s) ==
    /\ Cardinality(Occurrences(s, "{")) >= 2
    /\ Balanced(s)
    /\ ~contains(s, "\\")
    /\ ~contains(s, "e_acute")

\* C14: brace expansion of a source with nested groups or several groups
\* returns exactly one alternative per combination of options, commas
\* splitting only at depth 0 of their own group, the leftmost group varying
\* slowest (n1 * n2 alternatives for groups of n1 and n2 options).
C14_OneAlternativePerCombination ==
    (glob # Unset /\ BalancedGroups(pattern)) =>
        glob.expanded_patterns = Alternatives(pattern)

\* The source has a brace and none of its braces is matched: every `}`
\* stands before every `{` (only `{`, only `}`, or `}` before an unclosed
\* `{`); it has neither escapes nor non-ASCII characters.
UnmatchedBraces(s) ==
    /\ contains(s, "{") \/ contains(s, "}")
    /\ \A i \in Occurrences(s, "{") : \A j \in Occurrences(s, "}") : j < i
    /\ ~contains(s, "\\")
    /\ ~contains(s, "e_acute")

\* The components of the source with its braces read as literal
\* characters.
BracesReadLiterally(s) == parse_loop(s, 0, <<>>, <<>>)

\* C15: for a source with an unmatched brace GlobPattern::new succeeds and
\* matches(c) terminates for every candidate, returning true exactly for
\* the candidates that fit the pattern with the brace read literally.
C15_UnbalancedBraceIsLiteral ==
    (UnmatchedBraces(pattern) /\ pc # "glob_new") =>
        /\ glob # Unset
        /\ op = "matches" =>
               /\ pc = "done"
               /\ ret = Return(CanBeCut(BracesReadLiterally(pattern), text))

\* The source begins with an escaped special character; it has no
\* non-ASCII character.
EscapedFirst(s) ==
    /\ Len(s) >= 2
    /\ s[1] = "\\"
    /\ s[2] \in {"*", "?", "[", "{", "}"}
    /\ ~contains(s, "e_acute")

\* C16: an escaped `*`, `?`, `[`, `{` or `}` matches only that character
\* itself, also when a brace group stands elsewhere in the pattern: what
\* matches returns for a source that begins with such an escape (and has
\* an alternative, if it is expanded) is true iff the candidate begins with
\* that character and the rest of the candidate matches the rest of the
\* source.
C16_EscapedCharIsLiteral ==
    (/\ op = "matches"
     /\ pc = "done"
     /\ EscapedFirst(pattern)
     /\ NotExpanded \/ glob.expanded_patterns # <<>>) =>
        ret = Return(/\ text # <<>>
                     /\ text[1] = pattern[2]
                     /\ MatchesAlone(SubSeq(pattern, 3, Len(pattern)), Tail(text)))

\* The source is prefix[class]suffix: one `[`, one `]` after it, and no
\* other special character.
OneClass(s) ==
    /\ Cardinality(Occurrences(s, "[")) = 1
    /\ Cardinality(Occurrences(s, "]")) = 1
    /\ IndexOf(s, "[") < IndexOf(s, "]")
    /\ \A k \in 1..Len(s) : s[k] \notin {"*", "?", "\\", "{", "}", "e_acute"}

\* What stands between the brackets, and whether it begins with `!`.
ClassNegated(s) == s[IndexOf(s, "[") + 1] = "!"

ClassBody(s) ==
    SubSeq(s, IndexOf(s, "[") + (IF ClassNegated(s) THEN 2 ELSE 1),
           IndexOf(s, "]") - 1)

RECURSIVE ClassRanges(_)
\* The body of a class read as ranges x-y and listed characters (a listed
\* character x is the range x-x).
ClassRanges(body) ==
    IF body = <<>> THEN <<>>
    ELSE IF Len(body) >= 3 /\ body[2] = "-"
    THEN <<[lo |-> body[1], hi |-> body[3]]>> \o ClassRanges(SubSeq(body, 4, Len(body)))
    ELSE <<[lo |-> body[1], hi |-> body[1]]>> \o ClassRanges(Tail(body))

\* The class is made of listed characters and of ranges x-y with x <= y;
\* `-` and `!` are not among its characters.
ProperClass(s) ==
    /\ OneClass(s)
    /\ ClassBody(s) # <<>>
    /\ \A k \in 1..Len(ClassRanges(ClassBody(s))) :
           LET range == ClassRanges(ClassBody(s))[k]
           IN  /\ {range.lo, range.hi} \cap {"-", "!"} = {}
               /\ code_point[range.lo] <= code_point[range.hi]

\* The code point of c lies in some range of the class of s.
InClass(s, c) ==
    \E k \in 1..Len(ClassRanges(ClassBody(s))) :
        LET range == ClassRanges(ClassBody(s))[k]
        IN  /\ code_point[range.lo] <= code_point[c]
            /\ code_point[c] <= code_point[range.hi]

\* C17: a character class matches exactly one character of the candidate:
\* the character matches iff its code point lies in some range, both ends
\* included, or it is a listed character; a leading `!` inverts this.
C17_ClassMatchesOneChar ==
    (op = "matches" /\ ProperClass(pattern)) =>
        /\ pc = "done"
        /\ LET before == IndexOf(pattern, "[") - 1
               after == Len(pattern) - IndexOf(pattern, "]")
           IN  ret = Return(
                   /\ Len(text) = before + 1 + after
                   /\ SubSeq(text, 1, before) = SubSeq(pattern, 1, before)
                   /\ SubSeq(text, before + 2, Len(text))
                          = SubSeq(pattern, Len(pattern) - after + 1, Len(pattern))
                   /\ InClass(pattern, text[before + 1]) # ClassNegated(pattern))

\* C17 witness: `[!a-c1]` (a negated class of a range and a listed
\* character) rejected 'c', the upper end of its range.
C17_Witness ==
    /\ op = "matches"
    /\ pattern = <<"[", "!", "a", "-", "c", "1", "]">>
    /\ ProperClass(pattern)
    /\ text = <<"c">>
    /\ ret = Return(FALSE)

\* The paths of the entries (files and directories) at any depth strictly
\* below the base directory.
EntriesBelowBase ==
    UNION {{entry_path(dir, FileTree[dir][k]) : k \in 1..Len(FileTree[dir])} :
               dir \in DOMAIN FileTree}

\* The entries whose path string satisfies matches().
MatchingEntries ==
    {path \in EntriesBelowBase :
        /\ to_str(path) # <<>>
        /\ matches(glob, to_str(path)[1]) = Return(TRUE)}

\* The elements of a list.
ElementsOf(list) == {list[k] : k \in 1..Len(list)}

\* C18: the list that find_files(base) returns holds exactly the entries
\* strictly below base, at any depth, whose path string satisfies
\* matches(): every subdirectory is searched whether or not its own path
\* matched.  A glob compiled into components returns that list whenever no
\* read fails.
C18_FindFilesReturnsMatchingEntries ==
    /\ (op = "find_files" /\ pc = "done") =>
           ElementsOf(ret.val) = MatchingEntries
    /\ (op = "find_files" /\ fail_at = 0 /\ NotExpanded) => pc = "done"

\* C18 witness: `d/a/*` does not match the directory d/a, and the walk
\* returned the file d/a/b/c two levels below it.
C18_Witness ==
    /\ op = "find_files"
    /\ pc = "done"
    /\ pattern = <<"d", "/", "a", "/", "*">>
    /\ <<"d", "/", "a">> \notin ElementsOf(ret.val)
    /\ <<"d", "/", "a", "/", "b", "/", "c">> \in ElementsOf(ret.val)

\* The walk that the finished find_files call would have made had no read
\* failed.
UnfailedWalk == find_files(glob, BaseDir, 0)

\* C19: when a read of a directory reached by the traversal fails,
\* find_files returns an I/O error and no list of paths; the reads it made
\* are those of the unfailed walk up to the failing one, which is the last
\* (nothing is visited after it, and it is not made again).
C19_ReadFailureFailsTheCall ==
    (op = "find_files" /\ fail_at \in 1..Len(UnfailedWalk.reads)) =>
        /\ pc = "io_error"
        /\ ret = IoError
        /\ reads = SubSeq(UnfailedWalk.reads, 1, fail_at)

\* C19 witness: the first alternative of `{d/*,*c}` was walked to its end
\* and matched entries; the first read of the second alternative failed,
\* and the call returned the error.
C19_Witness ==
    /\ op = "find_files"
    /\ pattern = <<"{", "d", "/", "*", ",", "*", "c", "}">>
    /\ fail_at = 11
    /\ pc = "io_error"
    /\ ret = IoError
    /\ Len(reads) = 11
    /\ reads[11] = read_dir(BaseDir)
    /\ Len(find_files(GlobPattern_new(<<"d", "/", "*">>).val, BaseDir, 0).result) > 0

\* A regex source whose first character, or whose first character after a
\* leading `^`, is a quantifier.
QuantifierWithoutElement(p) ==
    \/ Len(p) >= 1 /\ p[1] \in {"*", "+", "?"}
    \/ Len(p) >= 2 /\ p[1] = "^" /\ p[2] \in {"*", "+", "?"}

\* The regex argument of an argument map: the value of `regex`, or that of
\* `r` when `regex` has none.
RegexArgument ==
    IF "regex" \in DOMAIN args /\ args["regex"] # <<>> THEN args["regex"]
    ELSE IF "r" \in DOMAIN args THEN args["r"]
    ELSE <<>>

\* C20: SimplePattern::new of a source in which a quantifier has no
\* preceding element (it is the first character, or directly follows a
\* leading `^`) fails and leaves no compiled pattern, and Config::new
\* called with such a source as its regex argument returns an error.
C20_QuantifierWithoutElementIsInvalid ==
    /\ (QuantifierWithoutElement(pattern) /\ pc # "new" /\ op # "Config::new") =>
           /\ pc = "invalid"
           /\ ~compiled.ok
           /\ compiled.elements = <<>>
    /\ (op = "Config::new" /\ RegexArgument # <<>>
            /\ QuantifierWithoutElement(RegexArgument[1])) =>
           /\ pc = "config_err"
           /\ ret.tag = "Err"

\* C20 witness: Config::new called with the search key "test" and the
\* regex "*invalid" returned an error.
C20_Witness ==
    /\ op = "Config::new"
    /\ "key" \in DOMAIN args
    /\ RegexArgument = << <<"*", "i", "n", "v", "a", "l", "i", "d">> >>
    /\ ret = Err("Error during the creating of the current regex")

RECURSIVE TrailingBackslashes(_)
\* The length of the run of backslashes that ends a string.
TrailingBackslashes(p) ==
    IF p = <<>> \/ p[Len(p)] # "\\" THEN 0
    ELSE 1 + TrailingBackslashes(SubSeq(p, 1, Len(p) - 1))

\* The final character is a backslash that no earlier backslash escapes.
EndsWithUnpairedBackslash(p) == TrailingBackslashes(p) % 2 = 1

\* C21: compiling a regex whose final character is an unpaired backslash
\* fails with an InvalidPattern error that carries a message, and no
\* compiled pattern is produced; the message is that of the incomplete
\* escape sequence unless a quantifier without a preceding element was met
\* first.
C21_IncompleteEscapeIsInvalid ==
    (EndsWithUnpairedBackslash(pattern) /\ pc # "new" /\ op # "Config::new") =>
        /\ pc = "invalid"
        /\ ~compiled.ok
        /\ compiled.elements = <<>>
        /\ compiled.error # ""
        /\ ~QuantifierWithoutElement(pattern) =>
               compiled.error = "Caractère d'échappement incomplet"

\* C21 witness: the compilation of `a\` failed.
C21_Witness ==
    /\ pattern = <<"a", "\\">>
    /\ pc = "invalid"
    /\ compiled.error = "Caractère d'échappement incomplet"

\* The source has been compiled by SimplePattern::new.
Compiled == pc # "new" /\ op # "Config::new"

\* C22 as stated: compiling a regex that ends with a lone trailing
\* backslash succeeds, and the trailing backslash becomes a Literal element
\* for the backslash character.
C22_TrailingBackslashIsLiteral ==
    (EndsWithUnpairedBackslash(pattern) /\ Compiled) =>
        /\ compiled.ok
        /\ compiled.elements # <<>>
        /\ compiled.elements[Len(compiled.elements)] = Literal("\\")

\* C22 amended: compiling a regex that ends with a lone trailing backslash
\* fails; a final backslash written as the escaped pair `\\` becomes a
\* Literal element for the backslash character, and the pattern `a\\`
\* matches the two-character text made of 'a' followed by a backslash.
C22_EscapedBackslashIsLiteral ==
    /\ (EndsWithUnpairedBackslash(pattern) /\ Compiled) => ~compiled.ok
    /\ (TrailingBackslashes(pattern) >= 2 /\ TrailingBackslashes(pattern) % 2 = 0
            /\ ~QuantifierWithoutElement(pattern) /\ Compiled) =>
           /\ compiled.ok
           /\ compiled.elements[Len(compiled.elements)] = Literal("\\")
    /\ (pattern = <<"a", "\\", "\\">> /\ op = "is_match"
            /\ text = <<"a", "\\">>) =>
           ret = Return(TRUE)

\* C22 witness: the pattern `a\\` matched the text made of 'a' and a
\* backslash.
C22_Witness ==
    /\ pattern = <<"a", "\\", "\\">>
    /\ compiled.elements = <<Literal("a"), Literal("\\")>>
    /\ op = "is_match"
    /\ text = <<"a", "\\">>
    /\ ret = Return(TRUE)

\* C24: find and find_all agree: whenever find_all(T) returns, find(T) is
\* Some exactly when the returned list is not empty, and it is then the
\* first element of the list (same start, end and text).
C24_FindAgreesWithFindAll ==
    (op = "find_all" /\ pc = "done") =>
        \E first \in {find(compiled.elements, text)} :
            /\ first.tag \in {"Some", "None"}
            /\ first.tag = "Some" <=> ret.val # <<>>
            /\ first.tag = "Some" => first.m = ret.val[1]

\* The source has the shape pre{o1,...,on}post with a non-empty last
\* option, no escape, and a non-ASCII character somewhere.
NonAsciiGroup(s) ==
    /\ Cardinality(Occurrences(s, "{")) = 1
    /\ Cardinality(Occurrences(s, "}")) = 1
    /\ \E i \in Occurrences(s, "{") : \E j \in Occurrences(s, "}") :
           i + 1 < j /\ s[j - 1] # ","
    /\ ~contains(s, "\\")
    /\ contains(s, "e_acute")

\* C25: GlobPattern::new returns a compiled glob for every source, and for
\* a source with non-ASCII characters before or inside its brace group the
\* alternatives are those of an ASCII source of the same shape.
C25_NewIsTotalOnNonAscii ==
    /\ ~(op = "none" /\ pc = "panic")
    /\ (glob # Unset /\ NonAsciiGroup(pattern)) =>
           glob.expanded_patterns = OneGroupExpansion(pattern)

\* The byte offset b of the text t is 0 or the offset right after a newline.
AfterNewline(t, b) ==
    \/ b = 0
    \/ \E k \in 1..Len(t) : t[k] = "\n" /\ byte_offset(t, k) = b

\* C26: for a pattern with a leading `^`, find attempts offset 0 alone, and
\* every Match that find returns or find_all collects starts at byte
\* offset 0 or right after a newline.
C26_AnchoredMatchStarts ==
    has_start_anchor(compiled.elements) =>
        /\ op = "find" => start_pos = 0
        /\ (op = "find" /\ pc = "done" /\ ret.val.tag = "Some") =>
               AfterNewline(text, ret.val.m.start)
        /\ op = "find_all" =>
               \A k \in 1..Len(results) : AfterNewline(text, results[k].start)

\* C26 witness: find_all of `^a` collected the match that starts after the
\* newline of the text.
C26_Witness ==
    /\ pattern = <<"^", "a">>
    /\ op = "find_all"
    /\ text = <<"\n", "a">>
    /\ pc = "done"
    /\ ret.val = <<[text |-> <<"a">>, start |-> 1, end |-> 2]>>

\* The recursive calls that the finished matches call made on the
\* components of the glob.
CallsMade == matches_from_position(text, glob.components, 0, 0).calls

\* C27: matches() on a glob that is not expanded returns for every pattern
\* and candidate.  Every recursive call of matches_from_position has a
\* greater component index or a greater text position than its caller,
\* neither beyond the component count and the candidate length; a
\* MultiWildcard calls the next component at the same position first, and
\* the same component one character further only when that call failed.
C27_MatchesTerminates ==
    (op = "matches" /\ glob.expanded_patterns = <<>>) =>
        /\ pc = "done"
        /\ \E calls \in {CallsMade} :
               \A call \in calls :
                   /\ call[3] > call[1] \/ call[4] > call[2]
                   /\ call[3] <= Len(glob.components)
                   /\ call[4] <= Len(text)
                   /\ glob.components[call[1] + 1].kind = "MultiWildcard" =>
                          \/ <<call[3], call[4]>> = <<call[1] + 1, call[2]>>
                          \/ /\ <<call[3], call[4]>> = <<call[1], call[2] + 1>>
                             /\ <<call[1], call[2], call[1] + 1, call[2]>> \in calls
                             /\ ~matches_from_position(text, glob.components,
                                                       call[1] + 1, call[2]).val

\* C27 witness: `*a` matched "aa" after the MultiWildcard first consumed
\* nothing, which failed, and then one character.
C27_Witness ==
    /\ op = "matches"
    /\ pattern = <<"*", "a">>
    /\ text = <<"a", "a">>
    /\ ret = Return(TRUE)
    /\ {<<0, 0, 1, 0>>, <<0, 0, 0, 1>>, <<0, 1, 1, 1>>} \subseteq CallsMade

\* The list that find_files returns for the k-th alternative alone.
AlternativeFiles(k) ==
    find_files(GlobPattern_new(glob.expanded_patterns[k]).val, BaseDir, 0).result

\* The first alternative whose list holds the path.
FirstAlternative(path) ==
    CHOOSE k \in 1..Len(glob.expanded_patterns) :
        /\ path \in ElementsOf(AlternativeFiles(k))
        /\ \A j \in 1..(k - 1) : path \notin ElementsOf(AlternativeFiles(j))

\* The place of an element in a list that holds it once.
PlaceIn(list, x) == CHOOSE k \in 1..Len(list) : list[k] = x

\* C28: the list that find_files returns for a glob with expanded
\* alternatives holds no path twice; it holds the paths of every
\* alternative's list, each at the place where the first alternative that
\* found it put it (alternatives in order, and within one alternative in
\* the order of its list).
C28_FindFilesHasNoDuplicates ==
    (op = "find_files" /\ pc = "done" /\ glob.expanded_patterns # <<>>) =>
        /\ \A i, j \in 1..Len(ret.val) : ret.val[i] = ret.val[j] => i = j
        /\ ElementsOf(ret.val) =
               UNION {ElementsOf(AlternativeFiles(k)) :
                          k \in 1..Len(glob.expanded_patterns)}
        /\ \A i, j \in 1..Len(ret.val) :
               i < j =>
                   \/ FirstAlternative(ret.val[i]) < FirstAlternative(ret.val[j])
                   \/ /\ FirstAlternative(ret.val[i]) = FirstAlternative(ret.val[j])
                      /\ PlaceIn(AlternativeFiles(FirstAlternative(ret.val[i])),
                                 ret.val[i])
                           < PlaceIn(AlternativeFiles(FirstAlternative(ret.val[i])),
                                     ret.val[j])

\* C28 witness: both alternatives of `{*c,d/*}` match d/c; the list
\* returned holds it once, where the first alternative put it, before the
\* directory d/a that only the second alternative matches.
C28_Witness ==
    /\ op = "find_files"
    /\ pc = "done"
    /\ pattern = <<"{", "*", "c", ",", "d", "/", "*", "}">>
    /\ <<"d", "/", "c">> \in ElementsOf(AlternativeFiles(1))
    /\ <<"d", "/", "c">> \in ElementsOf(AlternativeFiles(2))
    /\ Cardinality({i \in 1..Len(ret.val) : ret.val[i] = <<"d", "/", "c">>}) = 1
    /\ PlaceIn(ret.val, <<"d", "/", "c">>) < PlaceIn(ret.val, <<"d", "/", "a">>)

\* The source is one class, with at least one reversed range x-y (the code
\* point of x above that of y); `-` and `!` are not among its characters.
ReversedRangeClass(s) ==
    /\ OneClass(s)
    /\ IndexOf(s, "[") = 1
    /\ IndexOf(s, "]") = Len(s)
    /\ \A k \in 1..Len(ClassRanges(ClassBody(s))) :
           {ClassRanges(ClassBody(s))[k].lo, ClassRanges(ClassBody(s))[k].hi}
               \cap {"-", "!"} = {}
    /\ \E k \in 1..Len(ClassRanges(ClassBody(s))) :
           code_point[ClassRanges(ClassBody(s))[k].lo]
               > code_point[ClassRanges(ClassBody(s))[k].hi]

\* Every range of the class is reversed: the class lists no character.
OnlyReversedRanges(s) ==
    \A k \in 1..Len(ClassRanges(ClassBody(s))) :
        code_point[ClassRanges(ClassBody(s))[k].lo]
            > code_point[ClassRanges(ClassBody(s))[k].hi]

\* C29: a class with a reversed range compiles, and the range contributes
\* no character: the members of the class are those of its other items, so
\* `[z-a]` matches no candidate and `[!z-a]` matches every candidate of one
\* character.
C29_ReversedRangeIsEmpty ==
    /\ (pc \in {"glob_ready", "panic"} /\ ReversedRangeClass(pattern)) =>
           /\ pc = "glob_ready"
           /\ glob.components =
                  <<CharacterClass({c \in DOMAIN code_point : InClass(pattern, c)},
                                   ClassNegated(pattern))>>
    /\ (op = "matches" /\ ReversedRangeClass(pattern)) =>
           /\ ret = Return(/\ Len(text) = 1
                           /\ InClass(pattern, text[1]) # ClassNegated(pattern))
           /\ OnlyReversedRanges(pattern) =>
                  ret = Return(Len(text) = 1 /\ ClassNegated(pattern))

\* C29 witness: `[!z-a]` matched the candidate "z".
C29_Witness ==
    /\ op = "matches"
    /\ pattern = <<"[", "!", "z", "-", "a", "]">>
    /\ glob.components = <<CharacterClass({}, TRUE)>>
    /\ text = <<"z">>
    /\ ret = Return(TRUE)

\* The index of the first `[` of the source.
FirstOpen(s) == CHOOSE k \in Occurrences(s, "[") : \A j \in Occurrences(s, "[") : k <= j

\* The source is brace-free and escape-free, and no `]` follows its first
\* `[`.
UnclosedClass(s) ==
    /\ contains(s, "[")
    /\ \A k \in 1..Len(s) : s[k] \notin {"{", "}", "\\"}
    /\ \A k \in (FirstOpen(s) + 1)..Len(s) : s[k] # "]"

\* What follows the first `[`, after the `!` when there is one.
UnclosedNegated(s) == FirstOpen(s) < Len(s) /\ s[FirstOpen(s) + 1] = "!"

UnclosedBody(s) ==
    SubSeq(s, FirstOpen(s) + (IF UnclosedNegated(s) THEN 2 ELSE 1), Len(s))

\* C30: a `[` that no `]` follows is compiled as a character class that
\* takes the rest of the source: compiling succeeds, the class is the last
\* component, after the components of what stands before the `[`, its
\* members are the remaining characters with the ranges expanded, and a
\* leading `!` negates it.
C30_UnclosedClassTakesTheRest ==
    (pc \in {"glob_ready", "panic"} /\ op = "none" /\ UnclosedClass(pattern)) =>
        /\ pc = "glob_ready"
        /\ glob.expanded_patterns = <<>>
        /\ \E ranges \in {ClassRanges(UnclosedBody(pattern))} :
               glob.components =
                   Append(GlobPattern_new(SubSeq(pattern, 1, FirstOpen(pattern) - 1))
                              .val.components,
                          CharacterClass(
                              {c \in DOMAIN code_point :
                                  \E k \in 1..Len(ranges) :
                                      /\ code_point[ranges[k].lo] <= code_point[c]
                                      /\ code_point[c] <= code_point[ranges[k].hi]},
                              UnclosedNegated(pattern)))

\* C30 witness: `a[!a-c*` compiled to the literal a and a negated class of
\* a, b, c and `*`, with no component after it.
C30_Witness ==
    /\ pc = "glob_ready"
    /\ pattern = <<"a", "[", "!", "a", "-", "c", "*">>
    /\ glob.components =
           <<Component_Literal(<<"a">>), CharacterClass({"a", "b", "c", "*"}, TRUE)>>

====
